---- MODULE Spec2Model ----
(***************************************************************************)
(* Connection lifecycle and request correlation of the Cleverence Edge     *)
(* SDK transport (src/core/websocket.ts, class WebSocketManager) driven by *)
(* a browser WebSocket: sockets are created by connect(), the runtime      *)
(* delivers their open / message / error / close events and fires timers,  *)
(* one callback at a time.                                                 *)
(***************************************************************************)
EXTENDS Integers, Sequences, FiniteSets, Bags, TLC

\* ------------------------------------------------------------------ bounds
\* socket objects that exist at once (a closed socket is garbage)
MaxSockets == 2
\* request() calls in one behaviour
MaxRequests == 2
\* cap of the reconnect counter (the code has none)
MaxAttempts == 6

\* registrations made on one EventEmitter
MaxRegistrations == 2

\* Vue components that call useEdge()
MaxConsumers == 2

\* ---------------------------------------------------------------- options
\* DEFAULT_WS_OPTIONS, with auto-reconnect on or off
DEFAULT_WS_OPTIONS == [reconnect |-> TRUE, reconnectDelay |-> 1000, maxReconnectDelay |-> 30000]

OptionSets == {DEFAULT_WS_OPTIONS, [DEFAULT_WS_OPTIONS EXCEPT !.reconnect = FALSE]}

\* ----------------------------------------------------------------- values
ConnectionState == {"disconnected", "connecting", "connected", "reconnecting"}

Ids == 1..MaxRequests

\* null, where a socket object is expected
NoSocket == [readyState |-> "NONE", onOpen |-> FALSE, onError |-> FALSE, call |-> "none", wasOpen |-> FALSE, byDisconnect |-> FALSE]

\* new WebSocket(url) with the listeners connect() attaches to it; call: who
\* made the connect() call whose promise is still pending on it
NewSocket(by) == [readyState |-> "CONNECTING", onOpen |-> TRUE, onError |-> TRUE, call |-> by, wasOpen |-> FALSE, byDisconnect |-> FALSE]

\* inbound frames of the wire protocol, and text that is not JSON; data: the
\* frame has a data object
Frames ==
  {[type |-> "response", id |-> i, success |-> b, data |-> b] : i \in Ids, b \in BOOLEAN}
  \cup {[type |-> t, id |-> 0, success |-> FALSE, data |-> t = "capabilities"] : t \in {"pong", "event", "capabilities", "error", "malformed"}}

\* the events subscribers register for
EventNames == {"scan", "rfid"}

\* no close notification has been published in this step
NotPublished == [state |-> "none", ws |-> NoSocket]

\* no handler of the application is subscribed to the transport
NoSubscriber == [event |-> "none", data |-> "", calls |-> "none"]

\* handlers of the application that call the transport from inside a
\* publish: on notification event (for statechange, of state data) the
\* handler calls connect() or disconnect()
Subscribers ==
  {[event |-> "statechange", data |-> "connected", calls |-> "disconnect"],
   [event |-> "statechange", data |-> "reconnecting", calls |-> "disconnect"],
   [event |-> "open", data |-> "", calls |-> "disconnect"],
   [event |-> "close", data |-> "", calls |-> "connect"]}

\* no hardware event, where one is expected
NoEvent == [type |-> "none", timestamp |-> [kind |-> "none", value |-> 0], data |-> "none"]

\* no frame is being handled
NoFrame == [type |-> "none", id |-> 0, success |-> FALSE, data |-> FALSE, result |-> "null", event |-> NoEvent]

\* capabilities payloads
Payloads == {"capsA", "capsB"}

\* timestamps of hardware events as they arrive: ISO text, or a number
Timestamps == {[kind |-> "string", value |-> 1], [kind |-> "number", value |-> 1]}

\* ScanEvent | RfidEvent
Events == {[type |-> t, timestamp |-> ts, data |-> "012345678905"] : t \in {"scan", "rfid"}, ts \in Timestamps}

\* inbound frames with the payload the facade reads: result is data.result of
\* a success response and data of a capabilities push, event the hardware event
FacadeFrames ==
  {[type |-> "response", id |-> i, success |-> TRUE, data |-> TRUE, result |-> r, event |-> NoEvent] : i \in Ids, r \in Payloads}
  \cup {[type |-> "response", id |-> i, success |-> FALSE, data |-> FALSE, result |-> "null", event |-> NoEvent] : i \in Ids}
  \cup {[type |-> "capabilities", id |-> 0, success |-> FALSE, data |-> TRUE, result |-> r, event |-> NoEvent] : r \in Payloads}
  \cup {[type |-> "event", id |-> 0, success |-> FALSE, data |-> FALSE, result |-> "null", event |-> e] : e \in Events}
  \cup {[type |-> t, id |-> 0, success |-> FALSE, data |-> FALSE, result |-> "null", event |-> NoEvent] : t \in {"pong", "error", "malformed"}}

\* JSON text that is no frame of the wire protocol: a response that claims
\* success and has no data object
UntypedFrames == {[type |-> "response", id |-> i, success |-> TRUE, data |-> FALSE] : i \in Ids}

Min(a, b) == IF a <= b THEN a ELSE b

RECURSIVE Pow2(_)
Pow2(n) == IF n = 0 THEN 1 ELSE 2 * Pow2(n - 1)

\* ------------------------------------------------------------------ state
VARIABLES
  state,              \* WebSocketManager._state
  ws,                 \* WebSocketManager.ws: the socket object it refers to, or NoSocket
  reconnectAttempts,  \* WebSocketManager.reconnectAttempts
  reconnectTimer,     \* WebSocketManager.reconnectTimer is not null
  pingTimer,          \* WebSocketManager.pingTimer is not null
  pendingRequests,    \* WebSocketManager.pendingRequests: the identifiers it holds
  intentionalClose,   \* WebSocketManager.intentionalClose
  options,            \* WebSocketManager.options
  detached,           \* the socket objects it no longer refers to, which still deliver events (a bag)
  nextId,             \* request() calls made so far
  outstanding,        \* identifiers of the requests whose promise is not settled
  requestTimers,      \* identifiers of the requests whose expiry timer is armed
  settled,            \* resolve / reject calls on request promises made by the last step, in order
  armedReconnect,     \* reconnect timeouts armed in the runtime
  armedPing,          \* keepalive intervals armed in the runtime
  lastDelay,          \* delay of the reconnect timeout armed last since the last physical open (0: none)
  firedSinceOpen,     \* reconnect timeouts that fired since the last physical open
  step,               \* the step taken last: the result of the connect() call it made, the error it threw, the kind of frame it handled, the state and socket handle at its close notification
  emitted,            \* notifications published by the last step, in order
  wire,               \* frames written to the socket by the last step, in order
  keyOf,              \* the identifier generateId() gave to each request, by the order of the requests
  subscriber,         \* the handler the application has subscribed to the transport (NoSubscriber: none)
  sharedEdge,         \* the Vue module's sharedEdge: the instance in the slot, by the component that created it (0 for null)
  refCount,           \* the Vue module's refCount
  components,         \* the components that called useEdge(): their shared option, lifecycle phase, edge and the other refs, listeners
  constructed,        \* the shared CleverenceEdge constructed last, which the facade variables describe (0: none yet)
  facade,             \* the transport is the one a CleverenceEdge has created and subscribed to
  autoConnect,        \* CleverenceEdge.options.autoConnect
  autoConnectTimer,   \* the timeout of the constructor's deferred connect() is armed
  capabilities,       \* CleverenceEdge._capabilities ("null" for null)
  fetches,            \* identifiers of the requests made by the facade's open handler and not settled
  published,          \* notifications published by the facade in the last step, in order
  lastCapabilities,   \* payload of the capabilities notification published last ("null" if none was)
  handlers,           \* EventEmitter.handlers: for each event its Set, in insertion order
  registrations,      \* number of entries added to the Sets so far
  invoked,            \* the handlers called by the last publish, in order
  subscribed,         \* history: the <<event, handler>> given to on() and not removed since
  unsubscribed,       \* history: the <<event, handler>> given to off() and not to on() or once() since, of the handlers still in a Set
  call                \* the last call made on the EventEmitter

vars == <<state, ws, reconnectAttempts, reconnectTimer, pingTimer, pendingRequests, intentionalClose, options, detached, nextId, outstanding, requestTimers, settled, armedReconnect, armedPing, lastDelay, firedSinceOpen, step, emitted, wire, keyOf, subscriber, sharedEdge, refCount, components, constructed, facade, autoConnect, autoConnectTimer, capabilities, fetches, published, lastCapabilities, handlers, registrations, invoked, subscribed, unsubscribed, call>>

\* the state of an EventEmitter with subscribers of the application
emitterVars == <<handlers, registrations, invoked, subscribed, unsubscribed, call>>

\* the state of the transport and the facade
transportVars ==
  <<state, ws, reconnectAttempts, reconnectTimer, pingTimer, pendingRequests, intentionalClose,
    options, detached, nextId, outstanding, requestTimers, settled, armedReconnect, armedPing,
    lastDelay, firedSinceOpen, step, emitted, wire, keyOf, subscriber, sharedEdge, refCount, components, constructed, facade, autoConnect, autoConnectTimer,
    capabilities, fetches, published, lastCapabilities>>

\* the state as one record, which the methods below transform
World ==
  [state |-> state, ws |-> ws, reconnectAttempts |-> reconnectAttempts, reconnectTimer |-> reconnectTimer,
   pingTimer |-> pingTimer, pendingRequests |-> pendingRequests, intentionalClose |-> intentionalClose,
   options |-> options, detached |-> detached, nextId |-> nextId, outstanding |-> outstanding,
   requestTimers |-> requestTimers, settled |-> settled, armedReconnect |-> armedReconnect,
   armedPing |-> armedPing, lastDelay |-> lastDelay,
   firedSinceOpen |-> firedSinceOpen, step |-> step,
   emitted |-> emitted, wire |-> wire, keyOf |-> keyOf, subscriber |-> subscriber,
   sharedEdge |-> sharedEdge, refCount |-> refCount, components |-> components, constructed |-> constructed,
   facade |-> facade, autoConnect |-> autoConnect, autoConnectTimer |-> autoConnectTimer,
   capabilities |-> capabilities, fetches |-> fetches, published |-> published,
   lastCapabilities |-> lastCapabilities,
   frame |-> NoFrame]

\* no component has called useEdge()
NoComponents == <<>>

\* the listeners of useEdge(): handleConnect, handleDisconnect,
\* handleReconnecting, handleError, handleCapabilities set the component's refs
useEdgeListeners(comp, ev, caps, message) ==
  IF ev = "connect"
    THEN [comp EXCEPT !.connectionState = "connected", !.isConnected = TRUE, !.error = "null"]
  ELSE IF ev = "disconnect"
    THEN [comp EXCEPT !.connectionState = "disconnected", !.isConnected = FALSE]
  ELSE IF ev = "reconnecting"
    THEN [comp EXCEPT !.connectionState = "reconnecting", !.isConnected = FALSE]
  ELSE IF ev = "error" THEN [comp EXCEPT !.error = message]
  ELSE IF ev = "capabilities" THEN [comp EXCEPT !.capabilities = caps]
  ELSE comp

\* CleverenceEdge.emit(event, data): caps, event and message are the payload
\* of a capabilities, a scan / rfid and an error notification; the listeners
\* of the components that hold this instance run
publish(w, ev, caps, event, message) ==
  [w EXCEPT !.published = Append(@, [ev |-> ev, caps |-> caps, event |-> event, message |-> message]),
            !.lastCapabilities = IF ev = "capabilities" THEN caps ELSE @,
            !.components = [c \in DOMAIN @ |->
                              IF @[c].listening /\ @[c].edge = w.constructed
                                THEN useEdgeListeners(@[c], ev, caps, message) ELSE @[c]]]

\* mutant: the catch() of the open handler reports the failure
reactions_reportsFailure(w) ==
  LET failed == {i \in w.fetches : \E k \in 1..Len(w.settled) :
                   w.settled[k].id = i /\ w.settled[k].outcome = "rejected"}
      w1 == IF failed = {} THEN w ELSE publish(w, "error", "null", NoEvent, "capabilities")
  IN [w1 EXCEPT !.fetches = @ \cap w1.outstanding]

\* mutant: the then() of the open handler publishes without caching
reactions_noCache(w) ==
  LET resolved == {i \in w.fetches : \E k \in 1..Len(w.settled) :
                     w.settled[k].id = i /\ w.settled[k].first /\ w.settled[k].outcome = "resolved"}
      w1 == IF resolved = {} THEN w
            ELSE publish(w, "capabilities", w.frame.result, NoEvent, "")
  IN [w1 EXCEPT !.fetches = @ \cap w1.outstanding]

\* the promise reactions the step has queued, which run when its callback
\* returns: the then() of the open handler's getCapabilities() when the frame
\* being handled has resolved it; its catch() swallows a rejection
reactions(w) ==
  LET resolved == {i \in w.fetches : \E k \in 1..Len(w.settled) :
                     w.settled[k].id = i /\ w.settled[k].first /\ w.settled[k].outcome = "resolved"}
      w1 == IF resolved = {} THEN w
            ELSE publish([w EXCEPT !.capabilities = w.frame.result], "capabilities", w.frame.result, NoEvent, "")
  IN [w1 EXCEPT !.fetches = @ \cap w1.outstanding]

\* the state after the step that ends with world w
Becomes(w) ==
  /\ keyOf' = w.keyOf
  /\ subscriber' = w.subscriber
  /\ sharedEdge' = w.sharedEdge
  /\ refCount' = w.refCount
  /\ components' = w.components
  /\ constructed' = w.constructed
  /\ facade' = w.facade
  /\ autoConnect' = w.autoConnect
  /\ autoConnectTimer' = w.autoConnectTimer
  /\ capabilities' = reactions(w).capabilities
  /\ fetches' = reactions(w).fetches
  /\ published' = reactions(w).published
  /\ lastCapabilities' = reactions(w).lastCapabilities
  /\ UNCHANGED emitterVars
  /\ state' = w.state
  /\ ws' = w.ws
  /\ reconnectAttempts' = w.reconnectAttempts
  /\ reconnectTimer' = w.reconnectTimer
  /\ pingTimer' = w.pingTimer
  /\ pendingRequests' = w.pendingRequests
  /\ intentionalClose' = w.intentionalClose
  /\ options' = w.options
  /\ detached' = w.detached
  /\ nextId' = w.nextId
  /\ outstanding' = w.outstanding
  /\ requestTimers' = w.requestTimers
  /\ settled' = w.settled
  /\ armedReconnect' = w.armedReconnect
  /\ armedPing' = w.armedPing
  /\ lastDelay' = w.lastDelay
  /\ firedSinceOpen' = w.firedSinceOpen
  /\ step' = w.step
  /\ emitted' = w.emitted
  /\ wire' = w.wire

\* the world at the start of a step: empty logs, the step's name
Begin(op) ==
  [World EXCEPT !.emitted = <<>>, !.wire = <<>>, !.settled = <<>>, !.published = <<>>, !.step = [op |-> op, connect |-> "none", threw |-> "none", frame |-> "none", atClose |-> NotPublished]]

\* ---------------------------------------------------------- EventEmitter
\* the handlers subscribed to the transport's notifications: those of the
\* facade, defined with it
RECURSIVE setupWebSocketHandlers(_, _, _)

\* the handler of the application, defined after the methods it calls
RECURSIVE notify(_, _, _)

\* emit(event, data) of the transport: the notification is published, and its
\* handlers run
emit(w, ev, data) ==
  LET w1 == IF ev = "close" THEN [w EXCEPT !.step.atClose = [state |-> w.state, ws |-> w.ws]] ELSE w
  IN notify(setupWebSocketHandlers([w1 EXCEPT !.emitted = Append(@, [ev |-> ev, data |-> data])], ev, data), ev, data)

\* ------------------------------------------------------ WebSocketManager
\* mutant: the notification is published whether or not the value changes
setState_always(w, s) == emit([w EXCEPT !.state = s], "statechange", s)

setState(w, s) ==
  IF w.state # s THEN emit([w EXCEPT !.state = s], "statechange", s) ELSE w

stopPing(w) ==
  IF w.pingTimer
    THEN [w EXCEPT !.pingTimer = FALSE, !.armedPing = @ - 1]
    ELSE w

startPing(w) ==
  [stopPing(w) EXCEPT !.pingTimer = TRUE, !.armedPing = @ + 1]

\* resolve(...) / reject(error) of request i's promise: only the first call
\* settles it
settle(w, i, outcome, error) ==
  [w EXCEPT !.outstanding = @ \ {i},
            !.settled = Append(@, [id |-> i, outcome |-> outcome, error |-> error, first |-> i \in w.outstanding])]

clearRequestTimeout(w, i) == [w EXCEPT !.requestTimers = @ \ {i}]

\* mutant: the entries are dropped without being rejected
rejectAll_dropsSilently(w, ids) == w

\* the request whose entry the table holds under identifier key: the last one
\* that was given it
holder(w, key) ==
  CHOOSE p \in 1..w.nextId : w.keyOf[p] = key /\ \A q \in 1..w.nextId : w.keyOf[q] = key => q <= p

\* the requests whose entries the table holds
Entries(w) == {holder(w, key) : key \in w.pendingRequests}

\* pendingRequests.forEach: clear the timeout and reject, in insertion order
\* (identifiers are issued in increasing order)
RECURSIVE rejectAll(_, _)
rejectAll(w, ids) ==
  IF ids = {} THEN w
  ELSE LET i == CHOOSE x \in ids : \A y \in ids : x <= y
       IN rejectAll(settle(clearRequestTimeout(w, i), i, "rejected", "disconnected"), ids \ {i})

\* this.ws = null: the manager lets go of the socket it refers to
release(w) ==
  IF w.ws # NoSocket
    THEN [w EXCEPT !.ws = NoSocket, !.detached = @ (+) SetToBag({w.ws})]
    ELSE w

closeSocket(w) ==
  IF w.ws # NoSocket /\ w.ws.readyState \in {"OPEN", "CONNECTING"}
    THEN release([w EXCEPT !.ws.readyState = "CLOSING"])
    ELSE release(w)

\* mutant: a pending reconnect timer is left armed
clearReconnectTimer_leavesTimer(w) == w

clearReconnectTimer(w) ==
  IF w.reconnectTimer
    THEN [w EXCEPT !.reconnectTimer = FALSE, !.armedReconnect = @ - 1]
    ELSE w

cleanup(w) ==
  LET w1 == clearReconnectTimer(stopPing(w))
      w2 == rejectAll(w1, Entries(w1))
      w3 == [w2 EXCEPT !.pendingRequests = {}]
  IN closeSocket(w3)

\* mutant: the ceiling is not applied
backoffDelay_noCeiling(w) == w.options.reconnectDelay * Pow2(w.reconnectAttempts)

backoffDelay(w) ==
  Min(w.options.reconnectDelay * Pow2(w.reconnectAttempts), w.options.maxReconnectDelay)

\* mutant: a timer is armed whether or not one is pending
scheduleReconnect_noGuard(w) ==
  LET w1 == setState(w, "reconnecting") IN
  [w1 EXCEPT !.reconnectTimer = TRUE, !.armedReconnect = @ + 1, !.lastDelay = backoffDelay(w1)]

scheduleReconnect(w) ==
  IF w.reconnectTimer THEN w
  ELSE LET w1 == setState(w, "reconnecting") IN
       [w1 EXCEPT !.reconnectTimer = TRUE, !.armedReconnect = @ + 1, !.lastDelay = backoffDelay(w1)]

\* mutant: the auto-reconnect option is not consulted
handleClose_alwaysReconnects(w) ==
  LET w1 == cleanup(w) IN
  IF w1.intentionalClose THEN setState(w1, "disconnected")
  ELSE scheduleReconnect(emit(w1, "close", ""))

handleClose(w) ==
  LET w1 == cleanup(w) IN
  IF w1.intentionalClose THEN setState(w1, "disconnected")
  ELSE LET w2 == emit(w1, "close", "") IN
       IF w2.options.reconnect THEN scheduleReconnect(w2) ELSE setState(w2, "disconnected")

handleError(w) == emit(w, "error", "WebSocket error")

\* a closed socket that nothing refers to has delivered its last event
collect(w) ==
  [w EXCEPT !.detached = LET live == {x \in BagToSet(@) : x.readyState # "CLOSED"}
                         IN [x \in live |-> @[x]]]

\* the socket objects that exist
SocketCount(w) == BagCardinality(w.detached) + (IF w.ws # NoSocket THEN 1 ELSE 0)

\* mutant: the guard forgets the connecting state
alreadyConnecting_connectedOnly(w) == w.state = "connected"

\* the guard of connect(): the call completes at once, creating nothing
alreadyConnecting(w) == w.state = "connected" \/ w.state = "connecting"

\* connect(), called by the application or by the reconnect timer; throws: the
\* WebSocket constructor throws
connect(w, by, throws) ==
  IF alreadyConnecting(w)
    THEN [w EXCEPT !.step.connect = "resolved"]
    ELSE LET w1 == setState([w EXCEPT !.intentionalClose = FALSE], "connecting") IN
         IF throws
           THEN [setState(w1, "disconnected") EXCEPT !.step.connect = "rejected"]
           ELSE [release(w1) EXCEPT !.ws = NewSocket(by), !.step.connect = "pending"]

\* the once-listener onOpen of the connect() call that created the socket;
\* held: this.ws is that socket, whose error listener it then removes
onOpen(w, held) ==
  LET w1 == IF held THEN [w EXCEPT !.ws.onError = FALSE] ELSE w
      w2 == setState([w1 EXCEPT !.reconnectAttempts = 0], "connected")
      w3 == emit(startPing(w2), "open", "")
  IN [w3 EXCEPT !.step.connect = "resolved"]

\* mutant: the connect() promise is not rejected
onError_noReject(w, held) ==
  IF held THEN [w EXCEPT !.ws.onOpen = FALSE] ELSE w

\* the once-listener onError of the connect() call that created the socket;
\* held: this.ws is that socket, whose open listener it then removes
onError(w, held) ==
  LET w1 == IF held THEN [w EXCEPT !.ws.onOpen = FALSE] ELSE w
  IN [w1 EXCEPT !.step.connect = "rejected"]

disconnect(w) ==
  LET w1 == cleanup([w EXCEPT !.intentionalClose = TRUE]) IN
  emit(setState(w1, "disconnected"), "close", "")

\* the handler of the application runs on notification ev: its call of
\* connect() or disconnect() runs to its end inside the publish (the
\* connect() promise it gets is not the step's)
notify(w, ev, data) ==
  IF w.subscriber.event # ev \/ (ev = "statechange" /\ w.subscriber.data # data) THEN w
  ELSE IF w.subscriber.calls = "disconnect" THEN disconnect(w)
  ELSE IF ~alreadyConnecting(w) /\ SocketCount(w) >= MaxSockets THEN w
  ELSE [connect(w, "app", FALSE) EXCEPT !.step = w.step]

\* mutant: the readyState of the socket is not looked at
canSend_anySocket(w) == w.ws # NoSocket

\* send(message) does not throw
canSend(w) == w.ws # NoSocket /\ w.ws.readyState = "OPEN"

send(w, kind) ==
  IF canSend(w) THEN [w EXCEPT !.wire = Append(@, kind)]
  ELSE [w EXCEPT !.step.threw = "WebSocket is not connected"]

command(w) == send(w, "command")

\* identifiers are taken to be fresh: Date.now() and Math.random() do not repeat
\* generateId() when the text of Date.now() and Math.random() is one no
\* request has had
generateId(w) == w.nextId + 1

\* request(query) when generateId() returns id: this is request w.nextId + 1
requestAs_leavesEntry(w, id) ==
  LET p == w.nextId + 1
      w1 == [w EXCEPT !.nextId = p, !.outstanding = @ \cup {p}, !.requestTimers = @ \cup {p},
                      !.keyOf[p] = id, !.pendingRequests = @ \cup {id}]
      w2 == send(w1, "query")
  IN IF w2.step.threw = "none" THEN w2
     ELSE settle(clearRequestTimeout([w2 EXCEPT !.step.threw = "none"], p), p, "rejected", "not connected")

requestAs(w, id) ==
  LET p == w.nextId + 1
      w1 == [w EXCEPT !.nextId = p, !.outstanding = @ \cup {p}, !.requestTimers = @ \cup {p},
                      !.keyOf[p] = id, !.pendingRequests = @ \cup {id}]
      w2 == send(w1, "query")
  IN IF w2.step.threw = "none" THEN w2
     ELSE LET w3 == clearRequestTimeout([w2 EXCEPT !.step.threw = "none"], p) IN
          settle([w3 EXCEPT !.pendingRequests = @ \ {id}], p, "rejected", "not connected")

request(w) == requestAs(w, generateId(w))

\* mutant: the expiry of one request empties the whole table
requestTimeout_dropsAll(w, i) ==
  settle([w EXCEPT !.requestTimers = @ \ {i}, !.pendingRequests = {}], i, "rejected", "timeout")

\* mutant: the expiry is also published as an error notification
requestTimeout_broadcasts(w, i) ==
  emit(settle([w EXCEPT !.requestTimers = @ \ {i}, !.pendingRequests = @ \ {i}], i, "rejected", "timeout"),
       "error", "Request timeout")

\* the callback of request i's expiry timer
requestTimeout(w, i) ==
  settle([w EXCEPT !.requestTimers = @ \ {i}, !.pendingRequests = @ \ {w.keyOf[i]}], i, "rejected", "timeout")

\* mutant: the matched entry is not deleted from the table
handleMessage_keepsEntry(w, f) ==
  IF f.type = "malformed" THEN w
  ELSE IF f.type = "response" /\ f.id \in w.pendingRequests
    THEN LET w1 == clearRequestTimeout(w, f.id)
         IN IF f.success
              THEN (IF f.data THEN settle(w1, f.id, "resolved", "none") ELSE w1)
              ELSE settle(w1, f.id, "rejected", "server")
  ELSE IF f.type = "pong" THEN w
  ELSE emit(w, "message", f.type)

\* mutant: the keepalive acknowledgment is published like any other frame
handleMessage_forwardsPong(w, f) ==
  IF f.type = "malformed" THEN w
  ELSE IF f.type = "response" /\ f.id \in w.pendingRequests
    THEN LET w1 == [clearRequestTimeout(w, f.id) EXCEPT !.pendingRequests = @ \ {f.id}]
         IN IF f.success
              THEN (IF f.data THEN settle(w1, f.id, "resolved", "none") ELSE w1)
              ELSE settle(w1, f.id, "rejected", "server")
  ELSE emit(w, "message", f.type)

\* mutant: no try / catch around the handling
handleMessage_noCatch(w, f) ==
  IF f.type = "malformed" THEN [w EXCEPT !.step.threw = "SyntaxError"]
  ELSE IF f.type = "response" /\ f.id \in w.pendingRequests
    THEN LET w1 == [clearRequestTimeout(w, f.id) EXCEPT !.pendingRequests = @ \ {f.id}]
         IN IF f.success
              THEN (IF f.data THEN settle(w1, f.id, "resolved", "none") ELSE [w1 EXCEPT !.step.threw = "TypeError"])
              ELSE settle(w1, f.id, "rejected", "server")
  ELSE IF f.type = "pong" THEN w
  ELSE emit(w, "message", f.type)

\* message.data.result of a success response without data throws after the
\* entry is deleted: the catch logs it, like text that is not JSON
handleMessage(w, f) ==
  IF f.type = "malformed" THEN w
  ELSE IF f.type = "response" /\ f.id \in w.pendingRequests
    THEN LET pending == holder(w, f.id)
             w1 == [clearRequestTimeout(w, pending) EXCEPT !.pendingRequests = @ \ {f.id}]
         IN IF f.success
              THEN (IF f.data THEN settle(w1, pending, "resolved", "none") ELSE w1)
              ELSE settle(w1, pending, "rejected", "server")
  ELSE IF f.type = "pong" THEN w
  ELSE emit(w, "message", f.type)

\* the callback of the reconnect timeout
reconnectTimerCallback(w, throws) ==
  connect([w EXCEPT !.reconnectTimer = FALSE, !.reconnectAttempts = @ + 1], "timer", throws)

\* the callback of the keepalive interval
pingCallback(w) ==
  IF canSend(w) THEN send(w, "ping") ELSE w

\* --------------------------------------------------------- CleverenceEdge
\* mutant: the facade does not look at the connection state
ensureConnected_always(w) == TRUE

\* ensureConnected() does not throw: isConnected
ensureConnected(w) == w.state = "connected"

\* triggerScan(), setSymbologies(), startRfidInventory(), stopRfidInventory()
triggerScan(w) ==
  IF ensureConnected(w) THEN command(w)
  ELSE [w EXCEPT !.step.threw = "Not connected to Edge service"]

\* getStatus(), getCapabilities(), getConfig(), getRfidTags()
getStatus(w) ==
  IF ensureConnected(w) THEN request(w)
  ELSE [w EXCEPT !.step.threw = "Not connected to Edge service"]

\* the open handler's getCapabilities(): a refusal rejects its promise, which
\* the catch() swallows
fetchCapabilities(w) ==
  IF ensureConnected(w)
    THEN LET w1 == request(w) IN
         IF generateId(w) \in w1.outstanding THEN [w1 EXCEPT !.fetches = @ \cup {generateId(w)}] ELSE w1
    ELSE w

\* new Date(text)
parseTimestamp(ts) == IF ts.kind = "string" THEN [kind |-> "date", value |-> ts.value] ELSE ts

\* mutant: the event is republished as it arrived
handleEvent_keepsTimestamp(w, event) ==
  IF event.type = "scan" THEN publish(w, "scan", "null", event, "")
  ELSE IF event.type = "rfid" THEN publish(w, "rfid", "null", event, "")
  ELSE w

handleEvent(w, event) ==
  LET parsedEvent == [event EXCEPT !.timestamp = parseTimestamp(@)] IN
  IF event.type = "scan" THEN publish(w, "scan", "null", parsedEvent, "")
  ELSE IF event.type = "rfid" THEN publish(w, "rfid", "null", parsedEvent, "")
  ELSE w

handleServerMessage(w, message) ==
  IF message.type = "event" THEN handleEvent(w, message.event)
  ELSE IF message.type = "capabilities"
    THEN publish([w EXCEPT !.capabilities = message.result], "capabilities", message.result, NoEvent, "")
  ELSE IF message.type = "error" THEN publish(w, "error", "null", NoEvent, "server")
  ELSE w

\* mutant: the state changes of the transport are not republished
setupWebSocketHandlers_noStatechange(w, ev, data) ==
  IF ~w.facade THEN w
  ELSE IF ev = "open" THEN fetchCapabilities(publish(w, "connect", "null", NoEvent, ""))
  ELSE IF ev = "close" THEN publish(w, "disconnect", "null", NoEvent, "")
  ELSE IF ev = "error" THEN publish(w, "error", "null", NoEvent, data)
  ELSE IF ev = "statechange" THEN w
  ELSE handleServerMessage(w, w.frame)

\* the handlers of the facade, run on notification ev of the transport
setupWebSocketHandlers(w, ev, data) ==
  IF ~w.facade THEN w
  ELSE IF ev = "open" THEN fetchCapabilities(publish(w, "connect", "null", NoEvent, ""))
  ELSE IF ev = "close" THEN publish(w, "disconnect", "null", NoEvent, "")
  ELSE IF ev = "error" THEN publish(w, "error", "null", NoEvent, data)
  ELSE IF ev = "statechange"
    THEN (IF data = "reconnecting" THEN publish(w, "reconnecting", "null", NoEvent, "") ELSE w)
  ELSE handleServerMessage(w, w.frame)

\* ---------------------------------------------------------------- actions
Init ==
  /\ state = "disconnected"
  /\ ws = NoSocket
  /\ reconnectAttempts = 0
  /\ reconnectTimer = FALSE
  /\ pingTimer = FALSE
  /\ pendingRequests = {}
  /\ intentionalClose = FALSE
  /\ options \in OptionSets
  /\ detached = EmptyBag
  /\ nextId = 0
  /\ outstanding = {}
  /\ requestTimers = {}
  /\ settled = <<>>
  /\ armedReconnect = 0
  /\ armedPing = 0
  /\ lastDelay = 0
  /\ firedSinceOpen = 0
  /\ step = [op |-> "init", connect |-> "none", threw |-> "none", frame |-> "none", atClose |-> NotPublished]
  /\ emitted = <<>>
  /\ wire = <<>>
  /\ keyOf = [i \in Ids |-> i]
  /\ subscriber = NoSubscriber
  /\ sharedEdge = 0
  /\ refCount = 0
  /\ components = NoComponents
  /\ constructed = 0
  /\ facade = FALSE
  /\ autoConnect = FALSE
  /\ autoConnectTimer = FALSE
  /\ capabilities = "null"
  /\ fetches = {}
  /\ published = <<>>
  /\ lastCapabilities = "null"
  /\ handlers = [e \in EventNames |-> <<>>]
  /\ registrations = 0
  /\ invoked = <<>>
  /\ subscribed = {}
  /\ unsubscribed = {}
  /\ call = [op |-> "new", event |-> "none", handler |-> "none", returned |-> TRUE, added |-> FALSE]

\* the application calls connect()
ConnectCall(throws) ==
  /\ alreadyConnecting(World) \/ throws \/ SocketCount(World) < MaxSockets
  /\ Becomes(connect(Begin("connect"), "app", throws))

Connect == \E throws \in BOOLEAN : ConnectCall(throws)

\* the socket object sock once cleanup() has let go of it
LetGo(sock) ==
  IF sock.readyState \in {"OPEN", "CONNECTING"} THEN [sock EXCEPT !.readyState = "CLOSING"] ELSE sock

\* the world in which the detached socket object old has become new
Replace(w, old, new) ==
  [w EXCEPT !.detached = (@ (-) SetToBag({old})) (+) SetToBag({new})]

\* the application calls disconnect(); the socket it lets go of is marked
Disconnect ==
  LET w == disconnect(Begin("disconnect")) IN
  Becomes(IF ws # NoSocket /\ BagIn(LetGo(ws), w.detached)
            THEN Replace(w, LetGo(ws), [LetGo(ws) EXCEPT !.byDisconnect = TRUE])
            ELSE w)

\* the application calls send(message), or command(message), which delegates to it
Send == Becomes(command(Begin("send")))

\* the application calls request(query)
Request ==
  /\ nextId < MaxRequests
  /\ Becomes(request(Begin("request")))

\* the application calls request(), and generateId() returns the identifier
\* of a request still outstanding: the same millisecond and the same text of
\* Math.random()
RequestSameId ==
  /\ nextId < MaxRequests
  /\ \E q \in outstanding : Becomes(requestAs(Begin("request"), keyOf[q]))

\* the application calls a command method of the facade
FacadeCommand == Becomes(triggerScan(Begin("facadeCommand")))

\* the application calls a query method of the facade
FacadeQuery ==
  /\ nextId < MaxRequests
  /\ Becomes(getStatus(Begin("facadeQuery")))

\* the expiry timer of request i fires
RequestTimeoutOf(i) ==
  /\ i \in requestTimers
  /\ Becomes(requestTimeout(Begin("requestTimeout"), i))

RequestTimeout == \E i \in Ids : RequestTimeoutOf(i)

\* the socket objects that deliver events: <<TRUE, sock>> is the one this.ws
\* refers to, <<FALSE, sock>> a detached one
Sockets == {<<TRUE, x>> : x \in {ws} \ {NoSocket}} \cup {<<FALSE, x>> : x \in BagToSet(detached)}

\* the world in which socket object sock has become new
Put(w, held, sock, new) ==
  IF held THEN [w EXCEPT !.ws = new] ELSE Replace(w, sock, new)

\* a socket opens: readyState OPEN, then its open listeners
OpenOf(held, sock) ==
  /\ <<held, sock>> \in Sockets
  /\ sock.readyState = "CONNECTING"
  /\ facade => nextId < MaxRequests
  /\ LET opened == [sock EXCEPT !.readyState = "OPEN", !.wasOpen = TRUE, !.onOpen = FALSE,
                                !.call = IF sock.onOpen THEN "none" ELSE @]
         w1 == Put([Begin("open") EXCEPT !.firedSinceOpen = 0, !.lastDelay = 0], held, sock, opened)
     IN Becomes(IF sock.onOpen THEN onOpen(w1, held) ELSE w1)

SocketOpen == \E x \in Sockets : OpenOf(x[1], x[2])

\* the peer starts the closing handshake of an open socket
PeerClosingOf(held, sock) ==
  /\ <<held, sock>> \in Sockets
  /\ sock.readyState = "OPEN"
  /\ Becomes(Put(Begin("peerClosing"), held, sock, [sock EXCEPT !.readyState = "CLOSING"]))

PeerClosing == \E x \in Sockets : PeerClosingOf(x[1], x[2])

\* the connection of a socket fails (at any time before it is closed):
\* readyState CLOSED, then its error listeners, then its close listeners
FailOf(held, sock) ==
  /\ <<held, sock>> \in Sockets
  /\ sock.readyState \in {"CONNECTING", "OPEN", "CLOSING"}
  /\ LET dead == [sock EXCEPT !.readyState = "CLOSED", !.onError = FALSE]
         w1 == Put(Begin("fail"), held, sock, dead)
         w2 == IF sock.onError THEN onError(w1, held) ELSE w1
     IN Becomes(collect(handleClose(handleError(w2))))

SocketFail == \E x \in Sockets : FailOf(x[1], x[2])

\* a socket that had opened closes without an error: readyState CLOSED, then
\* its close listeners
CloseOf(held, sock) ==
  /\ <<held, sock>> \in Sockets
  /\ sock.readyState \in {"OPEN", "CLOSING"}
  /\ sock.wasOpen
  /\ Becomes(collect(handleClose(Put(Begin("close"), held, sock, [sock EXCEPT !.readyState = "CLOSED"]))))

SocketClose == \E x \in Sockets : CloseOf(x[1], x[2])

\* a socket, open or closing, delivers frame f
MessageOn(held, sock, f) ==
  /\ <<held, sock>> \in Sockets
  /\ sock.readyState \in {"OPEN", "CLOSING"}
  /\ sock.wasOpen
  /\ Becomes(handleMessage([Begin("message") EXCEPT !.step.frame = f.type, !.frame = f], f))

SocketMessage == \E x \in Sockets, f \in Frames : MessageOn(x[1], x[2], f)

\* an armed reconnect timeout fires
ReconnectTimerFires(throws) ==
  /\ armedReconnect > 0
  /\ reconnectAttempts < MaxAttempts
  /\ alreadyConnecting(World) \/ throws \/ SocketCount(World) < MaxSockets
  /\ LET w1 == [Begin("timer") EXCEPT !.armedReconnect = @ - 1, !.firedSinceOpen = @ + 1]
     IN Becomes(reconnectTimerCallback(w1, throws))

ReconnectTimerFire == \E throws \in BOOLEAN : ReconnectTimerFires(throws)

\* an armed keepalive interval ticks
PingTick ==
  /\ armedPing > 0
  /\ Becomes(pingCallback(Begin("ping")))

Next ==
  \/ Connect
  \/ Disconnect
  \/ Send
  \/ Request
  \/ FacadeCommand
  \/ FacadeQuery
  \/ RequestTimeout
  \/ SocketOpen
  \/ PeerClosing
  \/ SocketFail
  \/ SocketClose
  \/ SocketMessage
  \/ ReconnectTimerFire
  \/ PingTick

Spec == Init /\ [][Next]_vars

\* a socket, open or closing, delivers JSON text that is no frame of the protocol
SocketMessageUntyped == \E x \in Sockets, f \in UntypedFrames : MessageOn(x[1], x[2], f)

NextUntyped ==
  \/ Next
  \/ SocketMessageUntyped

\* the transport with a peer that need not keep to the wire protocol
SpecUntyped == Init /\ [][NextUntyped]_vars

\* mutant: the constructor calls connect() itself
InitFacade_connectsAtOnce ==
  /\ state = "connecting"
  /\ ws = NewSocket("auto")
  /\ reconnectAttempts = 0
  /\ reconnectTimer = FALSE
  /\ pingTimer = FALSE
  /\ pendingRequests = {}
  /\ intentionalClose = FALSE
  /\ options = DEFAULT_WS_OPTIONS
  /\ detached = EmptyBag
  /\ nextId = 0
  /\ outstanding = {}
  /\ requestTimers = {}
  /\ settled = <<>>
  /\ armedReconnect = 0
  /\ armedPing = 0
  /\ lastDelay = 0
  /\ firedSinceOpen = 0
  /\ step = [op |-> "init", connect |-> "pending", threw |-> "none", frame |-> "none", atClose |-> NotPublished]
  /\ emitted = <<[ev |-> "statechange", data |-> "connecting"]>>
  /\ wire = <<>>
  /\ keyOf = [i \in Ids |-> i]
  /\ subscriber = NoSubscriber
  /\ sharedEdge = 0
  /\ refCount = 0
  /\ components = NoComponents
  /\ constructed = 0
  /\ facade = TRUE
  /\ autoConnect \in BOOLEAN
  /\ autoConnectTimer = FALSE
  /\ capabilities = "null"
  /\ fetches = {}
  /\ published = <<>>
  /\ lastCapabilities = "null"
  /\ handlers = [e \in EventNames |-> <<>>]
  /\ registrations = 0
  /\ invoked = <<>>
  /\ subscribed = {}
  /\ unsubscribed = {}
  /\ call = [op |-> "new", event |-> "none", handler |-> "none", returned |-> TRUE, added |-> FALSE]

\* the transport, with every text generateId() can return
NextCollide == Next \/ RequestSameId

SpecCollide == Init /\ [][NextCollide]_vars

\* a transport with a handler of the application subscribed before connect()
InitReentrant ==
  /\ state = "disconnected"
  /\ ws = NoSocket
  /\ reconnectAttempts = 0
  /\ reconnectTimer = FALSE
  /\ pingTimer = FALSE
  /\ pendingRequests = {}
  /\ intentionalClose = FALSE
  /\ options = DEFAULT_WS_OPTIONS
  /\ detached = EmptyBag
  /\ nextId = 0
  /\ outstanding = {}
  /\ requestTimers = {}
  /\ settled = <<>>
  /\ armedReconnect = 0
  /\ armedPing = 0
  /\ lastDelay = 0
  /\ firedSinceOpen = 0
  /\ step = [op |-> "init", connect |-> "none", threw |-> "none", frame |-> "none", atClose |-> NotPublished]
  /\ emitted = <<>>
  /\ wire = <<>>
  /\ keyOf = [i \in Ids |-> i]
  /\ subscriber \in Subscribers
  /\ sharedEdge = 0
  /\ refCount = 0
  /\ components = NoComponents
  /\ constructed = 0
  /\ facade = FALSE
  /\ autoConnect = FALSE
  /\ autoConnectTimer = FALSE
  /\ capabilities = "null"
  /\ fetches = {}
  /\ published = <<>>
  /\ lastCapabilities = "null"
  /\ handlers = [e \in EventNames |-> <<>>]
  /\ registrations = 0
  /\ invoked = <<>>
  /\ subscribed = {}
  /\ unsubscribed = {}
  /\ call = [op |-> "new", event |-> "none", handler |-> "none", returned |-> TRUE, added |-> FALSE]

\* the transport with a handler that calls it from inside a publish
SpecReentrant == InitReentrant /\ [][Next]_vars

\* new CleverenceEdge(options): the transport is created with auto-reconnect,
\* the handlers are subscribed, and the deferred connect() is armed
InitFacade ==
  /\ state = "disconnected"
  /\ ws = NoSocket
  /\ reconnectAttempts = 0
  /\ reconnectTimer = FALSE
  /\ pingTimer = FALSE
  /\ pendingRequests = {}
  /\ intentionalClose = FALSE
  /\ options = DEFAULT_WS_OPTIONS
  /\ detached = EmptyBag
  /\ nextId = 0
  /\ outstanding = {}
  /\ requestTimers = {}
  /\ settled = <<>>
  /\ armedReconnect = 0
  /\ armedPing = 0
  /\ lastDelay = 0
  /\ firedSinceOpen = 0
  /\ step = [op |-> "init", connect |-> "none", threw |-> "none", frame |-> "none", atClose |-> NotPublished]
  /\ emitted = <<>>
  /\ wire = <<>>
  /\ keyOf = [i \in Ids |-> i]
  /\ subscriber = NoSubscriber
  /\ sharedEdge = 0
  /\ refCount = 0
  /\ components = NoComponents
  /\ constructed = 0
  /\ facade = TRUE
  /\ autoConnect \in BOOLEAN
  /\ autoConnectTimer = autoConnect
  /\ capabilities = "null"
  /\ fetches = {}
  /\ published = <<>>
  /\ lastCapabilities = "null"
  /\ handlers = [e \in EventNames |-> <<>>]
  /\ registrations = 0
  /\ invoked = <<>>
  /\ subscribed = {}
  /\ unsubscribed = {}
  /\ call = [op |-> "new", event |-> "none", handler |-> "none", returned |-> TRUE, added |-> FALSE]

\* the timeout of the constructor fires: connect(), its rejection swallowed
AutoConnectFires(throws) ==
  /\ autoConnectTimer
  /\ alreadyConnecting(World) \/ throws \/ SocketCount(World) < MaxSockets
  /\ Becomes(connect([Begin("autoConnect") EXCEPT !.autoConnectTimer = FALSE], "auto", throws))

AutoConnectFire == \E throws \in BOOLEAN : AutoConnectFires(throws)

\* a socket, open or closing, delivers a frame with its payload
SocketMessageFacade == \E x \in Sockets, f \in FacadeFrames : MessageOn(x[1], x[2], f)

\* the facade's methods (connect() and disconnect() delegate to the
\* transport), and what the runtime delivers
NextFacade ==
  \/ Connect
  \/ Disconnect
  \/ FacadeCommand
  \/ FacadeQuery
  \/ AutoConnectFire
  \/ RequestTimeout
  \/ SocketOpen
  \/ PeerClosing
  \/ SocketFail
  \/ SocketClose
  \/ SocketMessageFacade
  \/ ReconnectTimerFire
  \/ PingTick

\* the transport inside a CleverenceEdge
SpecFacade == InitFacade /\ [][NextFacade]_vars

\* the facade of an application that connects and disconnects, on a channel
\* that carries no frame from the server
NextStartup ==
  \/ Connect
  \/ Disconnect
  \/ AutoConnectFire
  \/ RequestTimeout
  \/ SocketOpen
  \/ PeerClosing
  \/ SocketFail
  \/ SocketClose
  \/ ReconnectTimerFire
  \/ PingTick

\* the runtime runs the callback of a timeout that is armed and never cleared,
\* as that of the constructor is
SpecStartup == InitFacade /\ [][NextStartup]_vars /\ WF_vars(AutoConnectFire)

\* ----------------------------------------------------------- EventEmitter
\* handlers of the application, by what they do when called: "returns"
\* returns, "throws" throws, "publishes" publishes the event it is called for
\* unless it is running already, "unsubscribes" calls off(event, "returns")
Handlers == {"returns", "throws", "publishes", "unsubscribes"}

\* the emitter while a call runs: thrown is the exception in flight
Emitter ==
  [handlers |-> handlers, registrations |-> registrations, invoked |-> <<>>, thrown |-> FALSE,
   subscribed |-> subscribed, unsubscribed |-> unsubscribed]

\* Set.has(f) for the function f: the handler fn itself, or the wrapper
\* created by registration n of once()
Has(set, fn, wrapper) ==
  \E k \in 1..Len(set) : IF wrapper = 0 THEN ~set[k].once /\ set[k].fn = fn ELSE set[k].once /\ set[k].n = wrapper

\* mutant: the handlers of an event are a list
on_list(em, event, fn, wrapper) ==
  [em EXCEPT !.registrations = @ + 1,
             !.unsubscribed = @ \ {<<event, fn>>},
             !.subscribed = IF wrapper = 0 THEN @ \cup {<<event, fn>>} ELSE @,
             !.handlers[event] = Append(@, [fn |-> fn, once |-> wrapper # 0, n |-> em.registrations + 1])]

\* on(event, f): Set.add appends f unless the Set has it
on(em, event, fn, wrapper) ==
  IF Has(em.handlers[event], fn, wrapper)
    THEN [em EXCEPT !.unsubscribed = @ \ {<<event, fn>>},
                    !.subscribed = IF wrapper = 0 THEN @ \cup {<<event, fn>>} ELSE @]
  ELSE [em EXCEPT !.registrations = @ + 1,
                  !.unsubscribed = @ \ {<<event, fn>>},
                  !.subscribed = IF wrapper = 0 THEN @ \cup {<<event, fn>>} ELSE @,
                  !.handlers[event] = Append(@, [fn |-> fn, once |-> wrapper # 0, n |-> em.registrations + 1])]

\* once(event, handler): on(event, onceHandler) with a wrapper of its own
once(em, event, fn) == on(em, event, fn, em.registrations + 1)

\* off(event, f): Set.delete(f)
off(em, event, fn, wrapper) ==
  [em EXCEPT !.unsubscribed = IF wrapper = 0 THEN @ \cup {<<event, fn>>} ELSE @,
             !.subscribed = IF wrapper = 0 THEN @ \ {<<event, fn>>} ELSE @,
             !.handlers[event] =
     SelectSeq(@, LAMBDA e : IF wrapper = 0 THEN ~(~e.once /\ e.fn = fn) ELSE ~(e.once /\ e.n = wrapper))]

\* removeAllListeners(event?): event is "undefined" when the argument is left out
removeAllListeners(em, event) ==
  IF event # "undefined"
    THEN [em EXCEPT !.handlers[event] = <<>>, !.subscribed = {p \in @ : p[1] # event}]
    ELSE [em EXCEPT !.handlers = [e \in EventNames |-> <<>>], !.subscribed = {}]

\* listenerCount(event)
listenerCount(em, event) == Len(em.handlers[event])

RECURSIVE forEach(_, _, _, _)

\* emit(event, data) of EventEmitter, called depth publishes deep
EventEmitter_emit(em, event, depth) == forEach(em, event, 0, depth)

\* the body of a handler of the application
handler(em, event, fn, depth) ==
  IF fn = "throws" THEN [em EXCEPT !.thrown = TRUE]
  ELSE IF fn = "publishes" THEN (IF depth = 0 THEN EventEmitter_emit(em, event, depth + 1) ELSE em)
  ELSE IF fn = "unsubscribes" THEN off(em, event, "returns", 0)
  ELSE em

\* the entry of the log for a call of entry e of the Set
Invocation(em, event, e, depth) ==
  [event |-> event, fn |-> e.fn, once |-> e.once, n |-> e.n, depth |-> depth,
   afterOff |-> <<event, e.fn>> \in em.unsubscribed]

\* mutant: onceHandler calls the handler before it unsubscribes
called_handlerFirst(em, event, e, depth) ==
  LET em1 == [em EXCEPT !.invoked = Append(@, Invocation(em, event, e, depth))]
      em2 == handler(em1, event, e.fn, depth)
  IN IF e.once /\ ~em2.thrown THEN off(em2, event, e.fn, e.n) ELSE em2

\* the function in the Set is called: the handler, or the wrapper of once(),
\* which unsubscribes itself and then calls the handler
called(em, event, e, depth) ==
  LET em1 == [em EXCEPT !.invoked = Append(@, Invocation(em, event, e, depth))]
  IN handler(IF e.once THEN off(em1, event, e.fn, e.n) ELSE em1, event, e.fn, depth)

\* the entries of a Set that forEach has not reached when it has visited the
\* entry of registration cursor
Rest(set, cursor) == SelectSeq(set, LAMBDA e : e.n > cursor)

\* mutant: forEach without try / catch
forEach_noCatch(em, event, cursor, depth) ==
  LET rest == Rest(em.handlers[event], cursor) IN
  IF rest = <<>> \/ em.thrown THEN em
  ELSE forEach(called(em, event, rest[1], depth), event, rest[1].n, depth)

\* eventHandlers.forEach(handler => try { handler(data) } catch { log }): the
\* Set is visited in insertion order as it is when each entry is reached
forEach(em, event, cursor, depth) ==
  LET rest == Rest(em.handlers[event], cursor) IN
  IF rest = <<>> THEN em
  ELSE forEach([called(em, event, rest[1], depth) EXCEPT !.thrown = FALSE], event, rest[1].n, depth)

\* the state after the call on the EventEmitter that ends with emitter em
Returns(em, op, event, fn) ==
  /\ handlers' = em.handlers
  /\ registrations' = em.registrations
  /\ invoked' = em.invoked
  /\ subscribed' = em.subscribed
  /\ unsubscribed' = {p \in em.unsubscribed : \E k \in 1..Len(em.handlers[p[1]]) : em.handlers[p[1]][k].fn = p[2]}
  /\ call' = [op |-> op, event |-> event, handler |-> fn, returned |-> ~em.thrown,
              added |-> em.registrations # registrations]
  /\ UNCHANGED transportVars

On(event, fn) ==
  /\ registrations < MaxRegistrations
  /\ Returns(on(Emitter, event, fn, 0), "on", event, fn)

Once(event, fn) ==
  /\ registrations < MaxRegistrations
  /\ Returns(once(Emitter, event, fn), "once", event, fn)

Off(event, fn) == Returns(off(Emitter, event, fn, 0), "off", event, fn)

RemoveAllListeners(event) == Returns(removeAllListeners(Emitter, event), "removeAllListeners", event, "none")

\* an operation publishes event: it goes on after emit() if emit() returns
Emit(event) == Returns(EventEmitter_emit(Emitter, event, 0), "emit", event, "none")

NextEmitter ==
  \/ \E event \in EventNames, fn \in Handlers : On(event, fn)
  \/ \E event \in EventNames, fn \in Handlers : Once(event, fn)
  \/ \E event \in EventNames, fn \in Handlers : Off(event, fn)
  \/ \E event \in EventNames \cup {"undefined"} : RemoveAllListeners(event)
  \/ \E event \in EventNames : Emit(event)

\* an EventEmitter with subscribers of the application
SpecEmitter == Init /\ [][NextEmitter]_vars

\* ------------------------------------------------------------------ claims
\* the socket is opening or open
Live(sock) == sock.readyState \in {"CONNECTING", "OPEN"}

\* sockets the transport does not hold that are opening or open
LiveDetached == {x \in BagToSet(detached) : Live(x)}

\* the resolve / reject calls the last step made on request i's promise
SettledOf(log, i) == SelectSeq(log, LAMBDA e : e.id = i)

C1_AtMostOneLive == LiveDetached = {}

C1_GuardedConnectCreatesNothing ==
  \A throws \in BOOLEAN :
    (state \in {"connected", "connecting"} /\ ConnectCall(throws)) => (detached' = detached /\ ws' = ws)

\* C1: at most one socket is opening or open at any time, and it is the one the
\* transport holds; connect() called while connected or connecting creates no socket.
C1_SinglePhysicalChannel == []C1_AtMostOneLive /\ [][C1_GuardedConnectCreatesNothing]_vars

C1_Witness ==
  /\ step.op = "connect"
  /\ step.connect = "resolved"
  /\ state = "connecting"
  /\ Live(ws)

C2_ResponseStep(f) ==
  \A i \in outstanding :
    IF i # f.id
      THEN /\ i \in outstanding' /\ i \in pendingRequests' /\ i \in requestTimers'
           /\ SettledOf(settled', i) = <<>>
      ELSE /\ SettledOf(settled', i) =
                <<[id |-> i, outcome |-> IF f.success THEN "resolved" ELSE "rejected",
                   error |-> IF f.success THEN "none" ELSE "server", first |-> TRUE]>>
           /\ i \notin outstanding' /\ i \notin pendingRequests' /\ i \notin requestTimers'

\* no step calls resolve / reject on a promise that is already settled, and no
\* table entry or armed expiry timer is left that could
C2_SettledOnce ==
  /\ \A k \in 1..Len(settled) : settled[k].first
  /\ pendingRequests \subseteq outstanding
  /\ requestTimers \subseteq outstanding

\* C2: a response frame with another id leaves an outstanding request pending,
\* with its table entry; one with its id settles it (resolved on success,
\* rejected with the server's error otherwise) and removes its entry; no request
\* is settled twice.
C2_RequestCorrelation ==
  /\ [][\A x \in Sockets, f \in Frames : (f.type = "response" /\ step'.frame = "response" /\ MessageOn(x[1], x[2], f)) => C2_ResponseStep(f)]_vars
  /\ []C2_SettledOnce

C2_Witness ==
  /\ step.op = "message"
  /\ settled = <<[id |-> 1, outcome |-> "rejected", error |-> "server", first |-> TRUE]>>
  /\ outstanding = {2}
  /\ pendingRequests = {2}

\* C3: disconnect() rejects every outstanding request with the disconnected
\* error, once, disarms its expiry timer and leaves the pending table empty.
C3_DisconnectRejectsAll ==
  [][Disconnect =>
       /\ \A i \in outstanding :
            SettledOf(settled', i) = <<[id |-> i, outcome |-> "rejected", error |-> "disconnected", first |-> TRUE]>>
       /\ Len(settled') = Cardinality(outstanding)
       /\ outstanding' = {}
       /\ pendingRequests' = {}
       /\ requestTimers' = {}]_vars

C3_Witness ==
  /\ step.op = "disconnect"
  /\ Len(settled) = MaxRequests
  /\ \A k \in 1..Len(settled) : settled[k].outcome = "rejected" /\ settled[k].error = "disconnected"
  /\ pendingRequests = {}

\* C4: when disconnect() returns, the state is disconnected, no reconnect timer
\* is pending, no keepalive timer runs and the transport holds no socket.
C4_DisconnectPostcondition ==
  step.op = "disconnect" =>
    /\ state = "disconnected"
    /\ ~reconnectTimer /\ armedReconnect = 0
    /\ ~pingTimer /\ armedPing = 0
    /\ ws = NoSocket
    /\ LiveDetached = {}

\* disconnect() called while reconnecting: the state change was published and
\* there was no socket to close
C4_Witness ==
  /\ step.op = "disconnect"
  /\ emitted = <<[ev |-> "statechange", data |-> "disconnected"], [ev |-> "close", data |-> ""]>>
  /\ reconnectAttempts > 0
  /\ ws = NoSocket /\ detached = EmptyBag

\* the close event of a socket is delivered, with or without an error before it
ClosedEvent(held, sock) == FailOf(held, sock) \/ CloseOf(held, sock)

\* C5: closing via disconnect() never schedules a reconnect: neither disconnect()
\* nor the close event of the socket it closed, whenever delivered, arms a
\* reconnect timer or moves the state to reconnecting.
C5_IntentionalCloseNeverReconnects ==
  [][/\ Disconnect => (~reconnectTimer' /\ armedReconnect' = 0 /\ state' # "reconnecting")
     /\ \A x \in BagToSet(detached) :
          (x.byDisconnect /\ ClosedEvent(FALSE, x)) =>
            (~reconnectTimer' /\ armedReconnect' = 0 /\ state' # "reconnecting")]_vars

\* C6: when the socket the transport holds closes while connected, the state
\* becomes reconnecting with exactly one reconnect timer armed if auto-reconnect
\* is enabled, and disconnected with none armed if it is disabled.
C6_UnintendedClose ==
  [][(state = "connected" /\ ClosedEvent(TRUE, ws)) =>
         IF options.reconnect
           THEN state' = "reconnecting" /\ reconnectTimer' /\ armedReconnect' = 1
           ELSE state' = "disconnected" /\ ~reconnectTimer' /\ armedReconnect' = 0]_vars

\* a socket that had opened closed with no other socket around, and a reconnect
\* is scheduled
C6_Witness ==
  /\ step.op = "close"
  /\ state = "reconnecting"
  /\ reconnectTimer /\ armedReconnect = 1
  /\ emitted = <<[ev |-> "close", data |-> ""], [ev |-> "statechange", data |-> "reconnecting"]>>
  /\ ws = NoSocket /\ detached = EmptyBag

\* C7: a connect() call completes successfully only once the channel has
\* opened: when its promise resolves the state is connected.
C7_ResolvesFromTheOpen ==
  (step.connect = "resolved") => state = "connected"

\* no retry is scheduled and the state is disconnected
C8_NoRetry == state' = "disconnected" /\ ~reconnectTimer' /\ armedReconnect' = 0

\* C8 as stated: when the open of an application's connect() fails (the
\* constructor throws, or the socket fails while connecting), the call is
\* rejected, the state becomes disconnected and no retry is scheduled.
C8_FailedOpenNoRetry ==
  [][/\ (state = "connecting" /\ ws.call = "app" /\ FailOf(TRUE, ws)) =>
            (step'.connect = "rejected" /\ C8_NoRetry)
     /\ (state \notin {"connected", "connecting"} /\ ConnectCall(TRUE)) =>
          (step'.connect = "rejected" /\ C8_NoRetry)]_vars

\* C8 amended: the call is rejected; when the constructor throws the state
\* becomes disconnected and nothing is scheduled (a timer pending from before
\* stays); when the socket fails while connecting the close handling runs as
\* for any unintended close: reconnecting with one timer armed if auto-reconnect
\* is enabled, disconnected with none if it is disabled.
C8_FailedOpen ==
  [][/\ (state = "connecting" /\ ws.call = "app" /\ FailOf(TRUE, ws)) =>
            /\ step'.connect = "rejected"
            /\ IF options.reconnect
                 THEN state' = "reconnecting" /\ reconnectTimer' /\ armedReconnect' = 1
                 ELSE C8_NoRetry
     /\ (state \notin {"connected", "connecting"} /\ ConnectCall(TRUE)) =>
          /\ step'.connect = "rejected"
          /\ state' = "disconnected"
          /\ reconnectTimer' = reconnectTimer /\ armedReconnect' = armedReconnect]_vars

\* the first connect() of the application failed while connecting
C8_Witness ==
  /\ step.op = "fail"
  /\ step.connect = "rejected"
  /\ state = "reconnecting"
  /\ reconnectTimer
  /\ firedSinceOpen = 0
  /\ ws = NoSocket /\ detached = EmptyBag

\* a step that arms a reconnect timer
Schedules == reconnectTimer' /\ \E x \in Sockets : ClosedEvent(x[1], x[2])

\* C9 as stated: the k-th reconnect timer armed since the last successful open
\* has delay min(base * 2^k, max): the first the base delay, each next one
\* twice the one before it, up to the ceiling.
C9_KthTimerDelay ==
  [][Schedules =>
       lastDelay' = IF lastDelay = 0
                      THEN Min(options.reconnectDelay, options.maxReconnectDelay)
                      ELSE Min(2 * lastDelay, options.maxReconnectDelay)]_vars

\* the delays of section 8, for base 1000 and ceiling 30000
BackoffSequence == <<1000, 2000, 4000, 8000, 16000, 30000, 30000>>

\* C9 amended: a reconnect timer armed when k reconnect timers have fired since
\* the last successful open has delay min(base * 2^k, max) (1000, 2000, 4000,
\* 8000, 16000, 30000, 30000, ... for the defaults), never above the ceiling
\* and never below the delay armed before it since that open; the reconnect
\* counter increases by one each time a reconnect timer fires.
C9_Backoff ==
  [][/\ Schedules =>
          /\ lastDelay' = Min(options.reconnectDelay * Pow2(firedSinceOpen), options.maxReconnectDelay)
          /\ lastDelay' <= options.maxReconnectDelay
          /\ lastDelay' >= lastDelay
          /\ (options.reconnectDelay = 1000 /\ options.maxReconnectDelay = 30000) =>
               lastDelay' = IF firedSinceOpen < Len(BackoffSequence)
                              THEN BackoffSequence[firedSinceOpen + 1] ELSE 30000
     /\ \A throws \in BOOLEAN :
          ReconnectTimerFires(throws) => reconnectAttempts' = reconnectAttempts + 1]_vars

\* the ceiling is armed for the second time in a row
C9_Witness ==
  /\ reconnectTimer
  /\ state = "reconnecting"
  /\ firedSinceOpen = 6
  /\ lastDelay = 30000

\* C10: every successful open resets the reconnect counter to zero, so when a
\* socket that had opened closes unintentionally the reconnect timer armed has
\* the base delay.
C10_BackoffReset ==
  [][/\ \A x \in Sockets : OpenOf(x[1], x[2]) => reconnectAttempts' = 0
     /\ (ws.wasOpen /\ options.reconnect /\ ClosedEvent(TRUE, ws)) =>
          (reconnectTimer' /\ lastDelay' = options.reconnectDelay)]_vars

\* C11: when the expiry timer of a request fires, that request and no other is
\* rejected, with the timeout error, and its entry and no other is removed;
\* every other outstanding request keeps its entry and its timer, and the
\* connection state does not change, whatever it is.
C11_TimeoutIsolation ==
  [][\A i \in Ids :
       RequestTimeoutOf(i) =>
         /\ settled' = <<[id |-> i, outcome |-> "rejected", error |-> "timeout", first |-> TRUE]>>
         /\ outstanding' = outstanding \ {i}
         /\ pendingRequests' = pendingRequests \ {i}
         /\ requestTimers' = requestTimers \ {i}
         /\ state' = state /\ ws' = ws /\ detached' = detached
         /\ emitted' = <<>>]_vars

\* the first of two pending requests timed out while connected
C11_Witness ==
  /\ step.op = "requestTimeout"
  /\ state = "connected"
  /\ settled = <<[id |-> 1, outcome |-> "rejected", error |-> "timeout", first |-> TRUE]>>
  /\ pendingRequests = {2} /\ requestTimers = {2} /\ outstanding = {2}

\* C12: every request settles, exactly once, stated so that a finite run
\* refutes it: a request that is not settled yet holds its entry in the pending
\* table and an armed expiry timer (so no entry is removed without its request
\* being settled, and its timeout can still settle it), and no step settles a
\* request that is settled already.
C12_EveryRequestSettles ==
  /\ \A i \in outstanding : i \in pendingRequests /\ i \in requestTimers
  /\ \A k \in 1..Len(settled) : settled[k].first

\* what a step leaves alone when it ignores its input
NothingChanges ==
  /\ state' = state /\ ws' = ws /\ detached' = detached
  /\ reconnectAttempts' = reconnectAttempts /\ intentionalClose' = intentionalClose
  /\ reconnectTimer' = reconnectTimer /\ armedReconnect' = armedReconnect
  /\ pingTimer' = pingTimer /\ armedPing' = armedPing
  /\ pendingRequests' = pendingRequests /\ requestTimers' = requestTimers
  /\ outstanding' = outstanding

\* C13: a response frame whose id matches no pending request settles no
\* request, changes no state and is not published on the message notification.
C13_UnknownResponseIgnored ==
  [][\A x \in Sockets, f \in Frames :
       (f.type = "response" /\ f.id \notin pendingRequests /\ step'.frame = "response" /\ MessageOn(x[1], x[2], f)) =>
         (settled' = <<>> /\ NothingChanges /\ emitted' = <<>>)]_vars

\* C14: send(message) throws the not-connected error, writes nothing and
\* changes nothing unless the state is connected and the socket held is open;
\* then it writes exactly one frame.
C14_SendPrecondition ==
  [][Send =>
       IF state = "connected" /\ ws # NoSocket /\ ws.readyState = "OPEN"
         THEN wire' = <<"command">> /\ step'.threw = "none" /\ NothingChanges
         ELSE wire' = <<>> /\ step'.threw = "WebSocket is not connected" /\ NothingChanges]_vars

\* send() threw while the state was connected: the peer is closing the socket
C14_Witness ==
  /\ step.op = "send"
  /\ step.threw = "WebSocket is not connected"
  /\ state = "connected"
  /\ ws.readyState = "CLOSING"

\* C15: a command or query method of the facade called while the state is not
\* connected fails with the facade's not-connected error, writes no frame,
\* registers no request and leaves nothing behind that could run it later.
C15_FacadePrecondition ==
  [][(state # "connected" /\ (FacadeCommand \/ FacadeQuery)) =>
       /\ step'.threw = "Not connected to Edge service"
       /\ wire' = <<>> /\ settled' = <<>> /\ emitted' = <<>>
       /\ nextId' = nextId
       /\ NothingChanges]_vars

\* a query method was refused while the transport was reconnecting
C15_Witness ==
  /\ step.op = "facadeQuery"
  /\ step.threw = "Not connected to Edge service"
  /\ state = "reconnecting"
  /\ nextId = 0

\* the statechange notifications in a log, in order
StateChanges(log) == SelectSeq(log, LAMBDA e : e.ev = "statechange")

\* C16: a statechange notification is published exactly when the state value
\* changes: the notifications of a step start from a state other than the one
\* before the step, no two in a row carry the same state, and the last one
\* carries the state after the step; a step that publishes none leaves the
\* state as it was. So the state published last is always the current state.
C16_IdempotentStatechange ==
  [][LET sc == StateChanges(emitted') IN
       IF Len(sc) = 0 THEN state' = state
       ELSE /\ sc[1].data # state
            /\ \A k \in 1..(Len(sc) - 1) : sc[k + 1].data # sc[k].data
            /\ sc[Len(sc)].data = state']_vars

\* disconnect() while disconnected set the same state again: nothing but the
\* close notification was published
C16_Witness ==
  /\ step.op = "disconnect"
  /\ state = "disconnected"
  /\ emitted = <<[ev |-> "close", data |-> ""]>>

\* the close notifications in a log
Closes(log) == SelectSeq(log, LAMBDA e : e.ev = "close")

\* C17: a call of disconnect() publishes exactly one close notification,
\* counting the call and the close event of the socket it closed: the call
\* publishes one, and that close event, whenever delivered, publishes none.
C17_OneClosePerDisconnect ==
  [][/\ Disconnect => Len(Closes(emitted')) = 1
     /\ \A x \in BagToSet(detached) :
          (x.byDisconnect /\ ClosedEvent(FALSE, x)) => Len(Closes(emitted')) = 0]_vars

\* a retry is in flight or has succeeded, or the next one is scheduled
C18_StillTrying ==
  \/ state' \in {"connecting", "connected"}
  \/ state' = "reconnecting" /\ reconnectTimer' /\ armedReconnect' > 0

\* C18: with auto-reconnect enabled and no disconnect(), every failed retry is
\* followed by another scheduled retry, stated so that a finite run refutes
\* it: when a reconnect timer fires, the retry it makes is in flight (or the
\* transport is connected) or the next retry is scheduled, and when the socket
\* of a retry fails the next retry is scheduled; the transport is never left
\* disconnected with nothing scheduled.
C18_RetriesIndefinitely ==
  [][(options.reconnect /\ ~intentionalClose) =>
       /\ \A throws \in BOOLEAN : ReconnectTimerFires(throws) => C18_StillTrying
       /\ (ws.call = "timer" /\ FailOf(TRUE, ws)) => (state' = "reconnecting" /\ reconnectTimer')]_vars

\* (a step whose log names the operation "message" is the delivery of a frame,
\* of the kind the log names)
\* C19: handling an inbound frame of any kind, of the protocol or not, throws
\* nothing into the caller, closes no socket and changes neither the connection
\* state, the reconnect counter nor the reconnect and keepalive timers; text
\* that is not JSON is dropped: nothing is published, no request is settled and
\* the pending table is unchanged.
C19_InboundFramesNonFatal ==
  [][step'.op = "message" =>
       /\ step'.threw = "none"
       /\ state' = state /\ ws' = ws /\ detached' = detached
       /\ reconnectAttempts' = reconnectAttempts /\ intentionalClose' = intentionalClose
       /\ reconnectTimer' = reconnectTimer /\ armedReconnect' = armedReconnect
       /\ pingTimer' = pingTimer /\ armedPing' = armedPing
       /\ step'.frame = "malformed" => (emitted' = <<>> /\ settled' = <<>> /\ NothingChanges)]_vars

\* text that is not JSON arrived while a request was pending
C19_Witness ==
  /\ step.op = "message" /\ step.frame = "malformed"
  /\ state = "connected"
  /\ pendingRequests = {1} /\ requestTimers = {1}
  /\ emitted = <<>>

\* C20: an inbound frame of kind event, capabilities or error is published
\* once, as it is, on the message notification, and nothing else is published;
\* a pong frame is not published.
C20_FrameForwarding ==
  [][step'.op = "message" =>
       /\ step'.frame \in {"event", "capabilities", "error"} => emitted' = <<[ev |-> "message", data |-> step'.frame]>>
       /\ step'.frame = "pong" => emitted' = <<>>]_vars

\* an event frame was forwarded while the peer was closing the socket
C20_Witness ==
  /\ step.op = "message" /\ step.frame = "event"
  /\ emitted = <<[ev |-> "message", data |-> "event"]>>
  /\ ws.readyState = "CLOSING"

\* a keepalive acknowledgment was consumed
C20_PongWitness ==
  /\ step.op = "message" /\ step.frame = "pong"
  /\ emitted = <<>>
  /\ state = "connected"
\* the entries of a log that are notification ev
Of(log, ev) == SelectSeq(log, LAMBDA e : e.ev = ev)

\* the requests of the open handler that the step has rejected
FetchFailedIn(before, log) ==
  {i \in before : \E k \in 1..Len(log) : log[k].id = i /\ log[k].outcome = "rejected"}

\* C21: a step in which the transport publishes open publishes connect once
\* and issues the capabilities query once: one request identifier is taken,
\* one query is written to the socket, and it is pending as the facade's own.
\* A step that rejects the facade's own query (timeout, failure response,
\* disconnect, loss of the channel) leaves the cache as it was and publishes no
\* error notification but those of the transport's own error notifications.
C21_ConnectAndFetch ==
  [][/\ Len(Of(emitted', "open")) > 0 =>
          /\ Len(Of(emitted', "open")) = 1
          /\ Len(Of(published', "connect")) = 1
          /\ nextId' = nextId + 1
          /\ nextId' \in fetches' /\ wire' = <<"query">>
          /\ Len(Of(published', "error")) = 0
          /\ capabilities' = capabilities
     /\ Len(Of(emitted', "open")) = 0 => Len(Of(published', "connect")) = 0
     /\ FetchFailedIn(fetches, settled') # {} =>
          /\ capabilities' = capabilities
          /\ Len(Of(published', "capabilities")) = 0
          /\ Len(Of(published', "error")) = Len(Of(emitted', "error"))]_vars

\* the query of the first open (request 1: the facade refuses a query before
\* it) has timed out, and nothing was published
C21_Witness ==
  /\ facade /\ step.op = "requestTimeout"
  /\ \E k \in 1..Len(settled) : settled[k].id = 1 /\ settled[k].outcome = "rejected"
  /\ published = <<>> /\ capabilities = "null"

\* the channel has opened: connect is published and the query is on the wire
C21_OpenWitness ==
  /\ facade /\ step.op = "open" /\ Len(Of(published, "connect")) = 1
  /\ nextId \in fetches /\ wire = <<"query">>

\* the channel is lost with the query pending: the transport's error is
\* republished, the query's rejection is not
C21_LossWitness ==
  /\ facade /\ step.op = "fail" /\ Len(Of(published, "error")) = 1
  /\ \E k \in 1..Len(settled) : settled[k].id = 1 /\ settled[k].outcome = "rejected"

\* C22: a step that publishes a capabilities notification publishes one and
\* leaves its payload in the cache; the steps that do are the one that resolves
\* the open handler's query, with the result of the response, and the one that
\* handles a capabilities push, with its data; no other step writes the cache
C22_CacheWrites ==
  [][LET caps == Of(published', "capabilities")
         fetched == step'.op = "message" /\ step'.frame = "response"
                    /\ \E k \in 1..Len(settled') : settled'[k].id \in fetches /\ settled'[k].outcome = "resolved"
         pushed == step'.op = "message" /\ step'.frame = "capabilities"
     IN /\ (fetched \/ pushed) <=> Len(caps) = 1
        /\ Len(caps) <= 1
        /\ Len(caps) = 1 => capabilities' = caps[1].caps /\ capabilities' \in Payloads
        /\ Len(caps) = 0 => capabilities' = capabilities]_vars

\* C22: the cache always equals the payload of the capabilities notification
\* published last, null if none was, and it is written by those two steps only
C22_CacheIsLastPublished == [](capabilities = lastCapabilities) /\ C22_CacheWrites

\* the query of the open handler resolved with one payload, and a later push
\* has replaced it with the other
C22_Witness ==
  /\ facade /\ step.op = "message" /\ step.frame = "capabilities"
  /\ capabilities = "capsB" /\ published = <<[ev |-> "capabilities", caps |-> "capsB", event |-> NoEvent, message |-> ""]>>
  /\ nextId = 1 /\ outstanding = {}

\* the query of the open handler has resolved: its result is cached and published
C22_FetchWitness ==
  /\ facade /\ step.op = "message" /\ step.frame = "response"
  /\ capabilities = "capsA" /\ Len(Of(published, "capabilities")) = 1

\* C23: the step that handles an event frame publishes one notification, of
\* the kind of its event, carrying the event with every field but timestamp
\* as it arrived and a timestamp that is the instant parsed from the text (no
\* text); the step that handles an error frame publishes one error
\* notification; no other step publishes scan or rfid
C23_EventRepublished ==
  [][/\ step'.op = "message" /\ step'.frame \in {"event", "error"} =>
          \A x \in Sockets, f \in FacadeFrames :
            f.type = step'.frame /\ MessageOn(x[1], x[2], f) =>
              /\ Len(published') = 1
              /\ f.type = "event" =>
                   /\ published'[1].ev = f.event.type
                   /\ published'[1].event.type = f.event.type
                   /\ published'[1].event.data = f.event.data
                   /\ published'[1].event.timestamp.kind # "string"
                   /\ published'[1].event.timestamp.value = f.event.timestamp.value
                   /\ f.event.timestamp.kind = "string" => published'[1].event.timestamp.kind = "date"
              /\ f.type = "error" =>
                   published'[1] = [ev |-> "error", caps |-> "null", event |-> NoEvent, message |-> "server"]
     /\ Len(Of(published', "scan")) + Len(Of(published', "rfid")) > 0 =>
          step'.op = "message" /\ step'.frame = "event"]_vars

\* an rfid event that arrived with a textual timestamp was republished as rfid
\* with the parsed instant
C23_Witness ==
  /\ facade /\ step.op = "message" /\ step.frame = "event"
  /\ published = <<[ev |-> "rfid", caps |-> "null", message |-> "",
                    event |-> [type |-> "rfid", timestamp |-> [kind |-> "date", value |-> 1], data |-> "012345678905"]]>>

\* an error frame was republished as one error notification
C23_ErrorWitness ==
  /\ facade /\ step.op = "message" /\ step.frame = "error"
  /\ Len(Of(published, "error")) = 1

\* the statechange notifications of a log that announce reconnecting
IntoReconnecting(log) == SelectSeq(log, LAMBDA e : e.ev = "statechange" /\ e.data = "reconnecting")

\* C24, as the code has it: every transition of the transport into
\* reconnecting is republished as one reconnecting notification and nothing
\* else is; every close notification of the transport is republished as
\* disconnect, that of a close which starts a reconnect too, and then the
\* step publishes disconnect and, right after it and last, reconnecting
C24_ReconnectingAfterDisconnect ==
  [][/\ Len(Of(published', "reconnecting")) = Len(IntoReconnecting(emitted'))
     /\ Len(Of(published', "disconnect")) = Len(Of(emitted', "close"))
     /\ state' = "reconnecting" /\ state # "reconnecting" =>
          /\ Len(Of(published', "reconnecting")) = 1
          /\ Len(published') >= 2
          /\ published'[Len(published') - 1].ev = "disconnect"
          /\ published'[Len(published')].ev = "reconnecting"]_vars

\* C24, as stated: every transition of the transport into reconnecting is
\* republished as one reconnecting notification, and a step that publishes
\* disconnect leaves the connection fully down: state disconnected, no
\* reconnect pending; so a step that starts a reconnect publishes
\* reconnecting and no disconnect
C24_ReconnectingNotDisconnect ==
  [][/\ Len(Of(published', "reconnecting")) = Len(IntoReconnecting(emitted'))
     /\ state' = "reconnecting" /\ state # "reconnecting" => Len(Of(published', "reconnecting")) = 1
     /\ Len(Of(published', "disconnect")) > 0 =>
          state' = "disconnected" /\ ~reconnectTimer' /\ Len(Of(published', "reconnecting")) = 0]_vars

\* the open channel closed without disconnect(): both disconnect and
\* reconnecting were published
C24_BothPublished ==
  /\ facade /\ step.op = "close" /\ state = "reconnecting"
  /\ Len(Of(published, "disconnect")) = 1 /\ Len(Of(published, "reconnecting")) = 1

\* C25: a step that rejects a request (expiry, failure response, disconnect(),
\* loss of the channel) publishes no error notification for it on the
\* transport or the facade: none at all, except that the step of a socket
\* failure publishes the one notification of the socket's error event, which
\* the facade republishes
C25_RequestErrorsNotBroadcast ==
  [][(\E k \in 1..Len(settled') : settled'[k].outcome = "rejected") =>
       IF step'.op = "fail"
         THEN /\ Of(emitted', "error") = <<[ev |-> "error", data |-> "WebSocket error"]>>
              /\ Len(Of(published', "error")) = 1
              /\ Of(published', "error")[1].message = "WebSocket error"
         ELSE Len(Of(emitted', "error")) = 0 /\ Len(Of(published', "error")) = 0]_vars

\* a failure response has rejected a request of the application, and nothing
\* was published
C25_Witness ==
  /\ facade /\ step.op = "message" /\ step.frame = "response"
  /\ \E k \in 1..Len(settled) : settled[k].id = 2 /\ settled[k].outcome = "rejected" /\ settled[k].error = "server"
  /\ emitted = <<>> /\ published = <<>>

\* disconnect() has rejected a pending request: close and disconnect are
\* published, no error
C25_DisconnectWitness ==
  /\ facade /\ step.op = "disconnect"
  /\ \E k \in 1..Len(settled) : settled[k].outcome = "rejected"
  /\ Len(Of(published, "disconnect")) = 1 /\ Len(Of(published, "error")) = 0

\* nothing of a connection exists: no socket, no reconnect pending
Down == state = "disconnected" /\ ws = NoSocket /\ detached = EmptyBag /\ ~reconnectTimer

\* C26: when the constructor returns nothing of a connection exists and
\* nothing was published, and the deferred connect() is pending exactly when
\* auto-connect is enabled; from such a state only a call of connect() or the
\* deferred connect() of the constructor creates a socket or changes the
\* state, so with auto-connect disabled only connect() does; the deferred
\* connect() is a step of its own, runs once, and does run
C26_DeferredAutoConnect ==
  /\ [](step.op = "init" =>
         Down /\ emitted = <<>> /\ published = <<>> /\ autoConnectTimer = autoConnect)
  /\ [][/\ Down /\ ~Down' => step'.op = "connect" \/ (step'.op = "autoConnect" /\ autoConnect)
        /\ ~autoConnect => ~autoConnectTimer'
        /\ step'.op = "autoConnect" => autoConnectTimer /\ ~autoConnectTimer'
        /\ ~autoConnectTimer => ~autoConnectTimer']_vars
  /\ (autoConnectTimer ~> step.op = "autoConnect")

\* the deferred connect() of the constructor has run as the first step: the
\* state is connecting, its change just published, and a socket exists
C26_Witness ==
  /\ facade /\ autoConnect /\ step.op = "autoConnect" /\ step.connect = "pending"
  /\ state = "connecting" /\ ws # NoSocket /\ detached = EmptyBag /\ nextId = 0
  /\ emitted = <<[ev |-> "statechange", data |-> "connecting"]>>

\* with auto-connect disabled the first channel was opened by connect()
C26_ManualWitness ==
  /\ facade /\ ~autoConnect /\ step.op = "connect" /\ state = "connecting" /\ ws # NoSocket

\* the registrations (numbers) of a sequence of entries or invocations
Numbers(seq) == [k \in 1..Len(seq) |-> seq[k].n]

\* the calls the publish itself made, not those of a publish inside it
Outer(log) == SelectSeq(log, LAMBDA i : i.depth = 0)

\* C27: emit() returns to the operation that called it, whatever the handlers
\* do, and the operation goes on; every handler registered for the event
\* when the publish starts is called in it, a handler that throws or not
\* before it (but for the handler that another one has unsubscribed first)
C27_PublishIsolation ==
  [][call'.op = "emit" =>
       /\ call'.returned
       /\ \A k \in 1..Len(handlers[call'.event]) :
            LET e == handlers[call'.event][k] IN
            \/ \E j \in 1..Len(invoked') : invoked'[j].n = e.n
            \/ /\ ~e.once /\ e.fn = "returns"
               /\ \E j \in 1..Len(invoked') : invoked'[j].fn = "unsubscribes"]_vars

\* a publish called a handler that threw and then the next handler, and
\* returned
C27_Witness ==
  /\ call.op = "emit" /\ call.returned
  /\ Len(invoked) = 2 /\ invoked[1].fn = "throws" /\ invoked[2].fn = "returns"

\* C28: a publish calls the handlers registered for its event when it starts,
\* each once, in the order of their registration, and no handler of another
\* event
C28_PublishOrder ==
  [][call'.op = "emit" =>
       /\ Numbers(Outer(invoked')) = Numbers(handlers[call'.event])
       /\ \A j \in 1..Len(invoked') : invoked'[j].event = call'.event]_vars

\* what the code does: the publish calls, in the order of registration and at
\* most once each, the handlers registered when it starts that are still
\* registered when their turn comes, and no handler of another event
PublishVisitsLiveSet ==
  [][call'.op = "emit" =>
       LET outer == Numbers(Outer(invoked'))
           before == Numbers(handlers[call'.event])
       IN /\ \A j \in 1..Len(outer) : \E k \in 1..Len(before) : before[k] = outer[j]
          /\ \A i, j \in 1..Len(outer) : i < j => outer[i] < outer[j]
          /\ \A j \in 1..Len(invoked') : invoked'[j].event = call'.event
          /\ (\A k \in 1..Len(handlers[call'.event]) :
                handlers[call'.event][k].fn \in {"returns", "throws"} /\ ~handlers[call'.event][k].once)
             => outer = before /\ handlers' = handlers]_vars

\* C29: a publish calls every wrapper of once() registered for its event
\* exactly once, counting the publishes made inside it, and leaves none of
\* them registered, whether the handler returns, throws or publishes the same
\* event; and a publish calls only what is registered when it starts, so no
\* later publish calls the wrapper again
C29_OnceIsOnce ==
  [][call'.op = "emit" =>
       /\ \A k \in 1..Len(handlers[call'.event]) :
            LET e == handlers[call'.event][k] IN
            e.once => /\ Len(SelectSeq(invoked', LAMBDA i : i.n = e.n)) = 1
                      /\ \A j \in 1..Len(handlers'[call'.event]) : handlers'[call'.event][j].n # e.n
       /\ \A j \in 1..Len(invoked') :
            \E k \in 1..Len(handlers[call'.event]) : handlers[call'.event][k].n = invoked'[j].n]_vars

\* a handler registered with once() has published the same event from inside
\* its call: it was called once, by the outer publish, and is gone
C29_Witness ==
  /\ call.op = "emit"
  /\ Len(invoked) = 3 /\ invoked[1].fn = "publishes" /\ invoked[1].once /\ invoked[1].depth = 0
  /\ invoked[2].depth = 1 /\ invoked[2].fn = "returns" /\ invoked[3] = [invoked[2] EXCEPT !.depth = 0]
  /\ \A j \in 1..Len(handlers[call.event]) : ~handlers[call.event][j].once

\* a handler registered with once() threw at its first call and is gone
C29_ThrowWitness ==
  /\ call.op = "emit" /\ call.returned
  /\ Len(invoked) = 1 /\ invoked[1].fn = "throws" /\ invoked[1].once
  /\ handlers[call.event] = <<>>

\* C30: no publish calls a handler for an event after off(event, handler) and
\* before the handler is registered for the event again, however it had been
\* registered; off() for a handler not registered for the event changes
\* nothing
C30_UnsubscribeStops ==
  [][/\ call'.op = "emit" => \A j \in 1..Len(invoked') : ~invoked'[j].afterOff
     /\ call'.op = "off" /\ (\A k \in 1..Len(handlers[call'.event]) : handlers[call'.event][k].fn # call'.handler)
          => handlers' = handlers /\ registrations' = registrations]_vars

\* what the code does: off() removes the handler registered with on(), and
\* no publish calls that registration afterwards
OffRemovesPlain ==
  [][/\ call'.op = "emit" => \A j \in 1..Len(invoked') : invoked'[j].afterOff => invoked'[j].once
     /\ call'.op = "off" =>
          /\ \A k \in 1..Len(handlers'[call'.event]) :
               handlers'[call'.event][k].once \/ handlers'[call'.event][k].fn # call'.handler
          /\ (\A k \in 1..Len(handlers[call'.event]) :
                handlers[call'.event][k].once \/ handlers[call'.event][k].fn # call'.handler)
             => handlers' = handlers]_vars

\* the wrappers of once() among the entries of a Set
Wrappers(set) == SelectSeq(set, LAMBDA e : e.once)

\* C31: listenerCount(event) is the number of distinct handlers given to on()
\* for the event and not removed since (plus the wrappers of once() not yet
\* called, none when once() is not used); on() with a handler that is
\* registered leaves the count as it is; a publish calls a handler registered
\* with on() at most once itself; removeAllListeners(event) empties that
\* event's Set and no other, removeAllListeners() empties every Set
C31_RegistryIsASet ==
  /\ [](\A event \in EventNames :
          listenerCount(Emitter, event) =
            Cardinality({p \in subscribed : p[1] = event}) + Len(Wrappers(handlers[event])))
  /\ [][/\ call'.op = "on" /\ <<call'.event, call'.handler>> \in subscribed =>
             handlers' = handlers /\ ~call'.added
        /\ call'.op = "emit" =>
             \A fn \in Handlers :
               Len(SelectSeq(invoked', LAMBDA i : i.fn = fn /\ ~i.once /\ i.depth = 0)) <= 1
        /\ call'.op = "removeAllListeners" =>
             \A event \in EventNames :
               handlers'[event] = IF call'.event \in {event, "undefined"} THEN <<>> ELSE handlers[event]]_vars

\* on() was called again with the one handler registered: the count is one
C31_Witness ==
  /\ call.op = "on" /\ ~call.added
  /\ subscribed = {<<call.event, call.handler>>}
  /\ listenerCount(Emitter, call.event) = 1

\* removeAllListeners(event) has emptied one event's handlers and left the other's
C31_RemoveWitness ==
  /\ call.op = "removeAllListeners" /\ call.event = "scan"
  /\ listenerCount(Emitter, "scan") = 0 /\ listenerCount(Emitter, "rfid") = 1

C33_IdentifiersUnique ==
  /\ \A p, q \in outstanding : p # q => keyOf[p] # keyOf[q]
  /\ \A q \in outstanding : keyOf[q] \in pendingRequests /\ holder(World, keyOf[q]) = q

\* C34: the keepalive interval runs exactly while the state is connected,
\* and at most one runs
C34_KeepaliveTracksConnected ==
  /\ pingTimer <=> state = "connected"
  /\ armedPing = IF pingTimer THEN 1 ELSE 0

\* C35: while the pending-request table is non-empty the transport holds a
\* socket handle and the state is connecting or connected; in the states
\* disconnected and reconnecting the table is empty
C35_PendingNeedsSocket ==
  /\ pendingRequests # {} => ws # NoSocket /\ state \in {"connecting", "connected"}
  /\ state \in {"disconnected", "reconnecting"} => pendingRequests = {}

C35_Witness ==
  /\ pendingRequests # {}
  /\ state = "connected"
  /\ ws # NoSocket
  /\ \E i \in 1..Len(settled) : settled[i].outcome = "resolved"

C35_RejectedWitness ==
  /\ step.op = "request"
  /\ state \in {"disconnected", "reconnecting"}
  /\ pendingRequests = {}
  /\ \E i \in 1..Len(settled) : settled[i].outcome = "rejected" /\ settled[i].error = "not connected"

C35_EmptiedWitness ==
  /\ state = "reconnecting"
  /\ pendingRequests = {}
  /\ \E i \in 1..Len(settled) : settled[i].outcome = "rejected" /\ settled[i].error = "disconnected"

\* C36: while a reconnect timer is pending the state is reconnecting
C36_TimerOnlyWhileReconnecting ==
  reconnectTimer => state = "reconnecting"

\* the transport holds a socket of a connection made after the disconnect()
\* that discarded the socket x
C37_Superseded(x) ==
  /\ x.byDisconnect
  /\ ws # NoSocket
  /\ state \in {"connecting", "connected"}

\* the current connection is as it was
C37_Untouched ==
  /\ ws' = ws
  /\ state' = state
  /\ pendingRequests' = pendingRequests
  /\ \A i \in 1..Len(settled') : settled'[i].outcome # "rejected"
  /\ reconnectTimer' = reconnectTimer
  /\ armedReconnect' = armedReconnect

\* C37: after disconnect() and a new connect(), a close, error, open or
\* message event of the discarded socket does not close the new socket, does
\* not change the state, does not reject requests of the new connection and
\* does not schedule a reconnect
C37_DiscardedSocketIsInert ==
  [][\A x \in BagToSet(detached) :
       C37_Superseded(x) =>
         /\ (step'.op \in {"close", "fail"} /\ ClosedEvent(FALSE, x)) => C37_Untouched
         /\ (step'.op = "open" /\ OpenOf(FALSE, x)) => C37_Untouched
         /\ (step'.op = "message" /\ \E f \in Frames : MessageOn(FALSE, x, f)) =>
              (ws' = ws /\ state' = state /\ reconnectTimer' = reconnectTimer)]_vars

\* disconnect() was called and no connect() has run since: disconnect() sets
\* intentionalClose and only connect() resets it, leaving state disconnected
\* at once
C38_Disconnected == state = "disconnected" /\ intentionalClose

\* C38: once disconnect() has been called on the facade, every step other
\* than a connect() call of the application leaves the state disconnected and
\* opens no socket
C38_StaysDisconnected ==
  [][/\ step'.op = "disconnect" => (C38_Disconnected' /\ ws' = NoSocket)
     /\ (C38_Disconnected /\ step'.op # "connect") =>
          (C38_Disconnected' /\ ws' = NoSocket /\ SocketCount(World') <= SocketCount(World))]_vars

\* the same with the deferred auto-connect of the constructor left out
C38_StaysDisconnectedButAutoConnect ==
  [][/\ step'.op = "disconnect" => (C38_Disconnected' /\ ws' = NoSocket)
     /\ (C38_Disconnected /\ step'.op \notin {"connect", "autoConnect"}) =>
          (C38_Disconnected' /\ ws' = NoSocket /\ SocketCount(World') <= SocketCount(World))]_vars

\* what a handler of the close notification of this step finds: the state and
\* the socket handle are those at the publication
C39_AtClose == [World EXCEPT !.state = step.atClose.state, !.ws = step.atClose.ws]

\* C39: when the transport publishes close the state its handlers read is
\* not connected, a state that reads connected comes with a socket handle,
\* and a command issued from the handler fails the not-connected check of
\* the facade
C39_CloseSeesNotConnected ==
  /\ state = "connected" => ws # NoSocket
  /\ step.atClose # NotPublished =>
       /\ step.atClose.state # "connected"
       /\ triggerScan(C39_AtClose).step.threw = "Not connected to Edge service"

\* ------------------------------------------------------------ Vue useEdge
Consumers == 1..MaxConsumers

\* the private instance of a component that does not share
Own(c) == MaxConsumers + c

\* useEdge(options) has run in the setup of a component: its refs
Setup(shared) ==
  [shared |-> shared, phase |-> "setup", edge |-> 0, listening |-> FALSE,
   connectionState |-> "disconnected", isConnected |-> FALSE, capabilities |-> "null", error |-> "null"]

\* new CleverenceEdge(edgeOptions) for the slot, made by component c
CleverenceEdge(w, c, auto) ==
  [w EXCEPT !.state = "disconnected", !.ws = NoSocket, !.reconnectAttempts = 0, !.reconnectTimer = FALSE,
            !.pingTimer = FALSE, !.pendingRequests = {}, !.intentionalClose = FALSE,
            !.options = DEFAULT_WS_OPTIONS, !.detached = EmptyBag, !.nextId = 0, !.outstanding = {},
            !.requestTimers = {}, !.armedReconnect = 0, !.armedPing = 0, !.lastDelay = 0,
            !.firedSinceOpen = 0, !.keyOf = [i \in Ids |-> i], !.facade = TRUE,
            !.autoConnect = auto, !.autoConnectTimer = auto, !.capabilities = "null", !.fetches = {},
            !.lastCapabilities = "null", !.sharedEdge = c, !.constructed = c]

\* the onMounted hook of component c; a private instance is new, its
\* connection is not followed
onMounted(w, c, auto) ==
  LET shared == w.components[c].shared
      w1 == IF shared /\ w.sharedEdge = 0 THEN CleverenceEdge(w, c, auto) ELSE w
      w2 == IF shared THEN [w1 EXCEPT !.refCount = @ + 1] ELSE w1
  IN [w2 EXCEPT !.components[c] =
        [@ EXCEPT !.phase = "mounted",
                  !.edge = IF shared THEN w2.sharedEdge ELSE Own(c),
                  !.connectionState = IF shared THEN w2.state ELSE "disconnected",
                  !.isConnected = shared /\ w2.state = "connected",
                  !.capabilities = IF shared THEN w2.capabilities ELSE "null",
                  !.listening = TRUE]]

\* mutant: every unmount of a sharing component disconnects the instance
onUnmounted_noCount(w, c) ==
  LET comp == w.components[c]
      w0 == [w EXCEPT !.components[c].phase = "unmounted"]
  IN IF comp.edge = 0 THEN w0
     ELSE LET w1 == [w0 EXCEPT !.components[c].listening = FALSE]
              w2 == IF comp.shared THEN [w1 EXCEPT !.refCount = @ - 1] ELSE w1
              w3 == IF comp.shared /\ w2.sharedEdge # 0
                      THEN [disconnect(w2) EXCEPT !.sharedEdge = 0]
                      ELSE w2
          IN [w3 EXCEPT !.components[c].edge = 0]

\* the onUnmounted hook of component c
onUnmounted(w, c) ==
  LET comp == w.components[c]
      w0 == [w EXCEPT !.components[c].phase = "unmounted"]
  IN IF comp.edge = 0 THEN w0
     ELSE LET w1 == [w0 EXCEPT !.components[c].listening = FALSE]
              w2 == IF comp.shared THEN [w1 EXCEPT !.refCount = @ - 1] ELSE w1
              w3 == IF comp.shared /\ w2.refCount = 0 /\ w2.sharedEdge # 0
                      THEN [disconnect(w2) EXCEPT !.sharedEdge = 0]
                      ELSE w2
          IN [w3 EXCEPT !.components[c].edge = 0]

\* no component has been mounted and no instance constructed
InitShared ==
  /\ state = "disconnected"
  /\ ws = NoSocket
  /\ reconnectAttempts = 0
  /\ reconnectTimer = FALSE
  /\ pingTimer = FALSE
  /\ pendingRequests = {}
  /\ intentionalClose = FALSE
  /\ options = DEFAULT_WS_OPTIONS
  /\ detached = EmptyBag
  /\ nextId = 0
  /\ outstanding = {}
  /\ requestTimers = {}
  /\ settled = <<>>
  /\ armedReconnect = 0
  /\ armedPing = 0
  /\ lastDelay = 0
  /\ firedSinceOpen = 0
  /\ step = [op |-> "init", connect |-> "none", threw |-> "none", frame |-> "none", atClose |-> NotPublished]
  /\ emitted = <<>>
  /\ wire = <<>>
  /\ keyOf = [i \in Ids |-> i]
  /\ subscriber = NoSubscriber
  /\ sharedEdge = 0
  /\ refCount = 0
  /\ components \in [Consumers -> {Setup(shared) : shared \in BOOLEAN}]
  /\ constructed = 0
  /\ facade = TRUE
  /\ autoConnect = FALSE
  /\ autoConnectTimer = FALSE
  /\ capabilities = "null"
  /\ fetches = {}
  /\ published = <<>>
  /\ lastCapabilities = "null"
  /\ handlers = [e \in EventNames |-> <<>>]
  /\ registrations = 0
  /\ invoked = <<>>
  /\ subscribed = {}
  /\ unsubscribed = {}
  /\ call = [op |-> "new", event |-> "none", handler |-> "none", returned |-> TRUE, added |-> FALSE]

\* component c is mounted
MountOf(c, auto) ==
  /\ components[c].phase = "setup"
  /\ Becomes(onMounted(Begin("mount"), c, auto))

Mount == \E c \in Consumers, auto \in BOOLEAN : MountOf(c, auto)

\* component c is unmounted, mounted before or not
UnmountOf(c) ==
  /\ components[c].phase \in {"setup", "mounted"}
  /\ Becomes(onUnmounted(Begin("unmount"), c))

Unmount == \E c \in Consumers : UnmountOf(c)

\* component c calls the connect() useEdge() returned, on the shared instance
UseEdgeConnectOf(c, throws) ==
  /\ components[c].edge # 0
  /\ components[c].edge = constructed
  /\ alreadyConnecting(World) \/ throws \/ SocketCount(World) < MaxSockets
  /\ Becomes(connect(Begin("connect"), "app", throws))

UseEdgeConnect == \E c \in Consumers, throws \in BOOLEAN : UseEdgeConnectOf(c, throws)

\* component c calls the disconnect() useEdge() returned, on the shared instance
UseEdgeDisconnectOf(c) ==
  /\ components[c].edge # 0
  /\ components[c].edge = constructed
  /\ Disconnect

UseEdgeDisconnect == \E c \in Consumers : UseEdgeDisconnectOf(c)

NextShared ==
  \/ Mount
  \/ Unmount
  \/ UseEdgeConnect
  \/ UseEdgeDisconnect
  \/ AutoConnectFire
  \/ SocketOpen
  \/ SocketClose
  \/ ReconnectTimerFire

SpecShared == InitShared /\ [][NextShared]_vars

\* the sharing components that are mounted
C40_Sharing == {c \in Consumers : components[c].shared /\ components[c].phase = "mounted"}

\* C40: the shared instance exists exactly while the reference count is
\* positive, the count is the number of mounted sharing components and never
\* negative, the unmount that brings the count to zero disconnects the shared
\* instance and clears the slot, and an earlier unmount leaves the instance
\* and its connection alone
C40_ReferenceCount ==
  /\ [](/\ sharedEdge # 0 <=> refCount > 0
        /\ refCount = Cardinality(C40_Sharing)
        /\ refCount >= 0
        /\ \A c \in C40_Sharing : components[c].edge = sharedEdge /\ sharedEdge = constructed)
  /\ [][\A c \in C40_Sharing :
          (step'.op = "unmount" /\ UnmountOf(c)) =>
            IF refCount = 1
              THEN /\ sharedEdge' = 0
                   /\ state' = "disconnected" /\ ws' = NoSocket /\ intentionalClose'
                   /\ emitted'[Len(emitted')] = [ev |-> "close", data |-> ""]
              ELSE /\ sharedEdge' = sharedEdge
                   /\ state' = state /\ ws' = ws /\ intentionalClose' = intentionalClose
                   /\ emitted' = <<>>]_vars

\* the last of two sharing components is unmounted while the instance is
\* connected
C40_Witness ==
  /\ step.op = "unmount"
  /\ sharedEdge = 0 /\ refCount = 0
  /\ Cardinality({c \in Consumers : components[c].shared /\ components[c].phase = "unmounted"}) >= 2
  /\ Len(emitted) > 0
  /\ \E i \in 1..Len(emitted) : emitted[i] = [ev |-> "statechange", data |-> "disconnected"]

\* an earlier unmount: the instance stays connected
C40_EarlierWitness ==
  /\ step.op = "unmount"
  /\ refCount = 1 /\ sharedEdge # 0
  /\ state = "connected"
  /\ \E c \in Consumers : components[c].shared /\ components[c].phase = "unmounted"

====
